---- MODULE Spec2Model ----
(***************************************************************************)
(* Engine API of op-geth (package catalyst): fork-choice-update and        *)
(* new-payload handlers of ConsensusAPI, the invalid-ancestor tracker, the *)
(* two payload caches and the locks that serialise the calls.              *)
(*                                                                         *)
(* A hash is modelled by the identity of the block it addresses; 0 is the  *)
(* zero hash and NilHash is a nil *common.Hash.                            *)
(***************************************************************************)
EXTENDS Integers, Sequences, FiniteSets, TLC

(* ------------------------------------------------------------------ *)
(* Bounds of the model                                                 *)
(* ------------------------------------------------------------------ *)
\* logical clock: number of liveness stamps (time.Now() readings) in a run
MaxClock == 2
\* number of sync bad-block callbacks delivered in a run
MaxBadBlocks == 1
\* capacity of the local payload queue, scaled down
MaxTrackedPayloads == 2
\* capacity of the remote header queue, scaled down
MaxTrackedHeaders == 2
\* TxPool.GetBlobs calls the driver makes
MaxGetBlobs == 2

(* ------------------------------------------------------------------ *)
(* Program constants                                                   *)
(* ------------------------------------------------------------------ *)
invalidBlockHitEviction == 128
invalidTipsetsCap == 512
\* the largest count getBodiesByRange serves
bodiesCountLimit == 1024
\* the largest number of hashes GetBlobsV1 serves
blobsCountLimit == 128
\* the modulus of Go's uint64 arithmetic, 2^64 in the program, scaled to
\* 2^30 to stay within the integers of the model checker
Uint64Mod == 1073741824

Procs == {1, 2}
NoProc == 0
\* the goroutine NewConsensusAPI starts for heartbeat
HeartbeatProc == 3
Threads == Procs \cup {HeartbeatProc}

ZeroHash == 0
NilHash == -1
Nil == -1

(* ------------------------------------------------------------------ *)
(* The block tree the driver and the sync collaborator talk about      *)
(*   1 genesis (proof-of-work, difficulty 1)                           *)
(*   2 <- 1, 3 <- 2, 4 <- 2 (sibling of 3), 5 <- 4, 6 <- 5,            *)
(*   7 <- 3 with a timestamp equal to its parent's, 8 <- 1, 9 <- 1,    *)
(*   10 <- 8, 11 <- 8 with a timestamp equal to its parent's,          *)
(*   12 <- 2 proof-of-work (difficulty 1) on a post-merge parent       *)
(* ------------------------------------------------------------------ *)
Blocks == 1..12
ParentHash == <<0, 1, 2, 2, 4, 5, 3, 1, 1, 8, 8, 2>>
Number == <<0, 1, 2, 2, 3, 4, 3, 1, 1, 2, 2, 2>>
Time == <<0, 1, 2, 2, 3, 4, 2, 1, 1, 2, 1, 2>>
Difficulty == <<1, 0, 0, 0, 0, 0, 0, 0, 0, 0, 0, 1>>
Hashes == Blocks \cup {ZeroHash}

RECURSIVE AncestorAt(_, _)
\* the ancestor of block b (b included) that has number n, ZeroHash if none
AncestorAt(b, n) ==
  IF b = ZeroHash THEN ZeroHash
  ELSE IF Number[b] = n THEN b
  ELSE IF Number[b] < n THEN ZeroHash
  ELSE AncestorAt(ParentHash[b], n)

RECURSIVE Descends(_, _)
\* b is a or descends from a through parent links
Descends(b, a) ==
  IF b = ZeroHash THEN FALSE
  ELSE IF b = a THEN TRUE
  ELSE Descends(ParentHash[b], a)

(* ------------------------------------------------------------------ *)
(* Chain configuration (params.ChainConfig)                            *)
(* ------------------------------------------------------------------ *)
OpConfig ==
  [optimism |-> TRUE, london |-> 0, shanghai |-> 1, cancun |-> 2,
   prague |-> 3, osaka |-> Nil, holocene |-> 2, isthmus |-> 3]
L1Config ==
  [optimism |-> FALSE, london |-> 0, shanghai |-> 1, cancun |-> 2,
   prague |-> 3, osaka |-> Nil, holocene |-> Nil, isthmus |-> Nil]
OsakaConfig ==
  [optimism |-> TRUE, london |-> 0, shanghai |-> 1, cancun |-> 2,
   prague |-> 3, osaka |-> 4, holocene |-> 3, isthmus |-> Nil]

isBlockForked(s, h) == IF s = Nil \/ h = Nil THEN FALSE ELSE s <= h
isTimestampForked(s, h) == IF s = Nil THEN FALSE ELSE s <= h

IsLondon(c, num) == isBlockForked(c.london, num)
IsShanghai(c, num, t) == IsLondon(c, num) /\ isTimestampForked(c.shanghai, t)
IsCancun(c, num, t) == IsLondon(c, num) /\ isTimestampForked(c.cancun, t)
IsPrague(c, num, t) == IsLondon(c, num) /\ isTimestampForked(c.prague, t)
IsOsaka(c, num, t) == IsLondon(c, num) /\ isTimestampForked(c.osaka, t)
IsHolocene(c, t) == isTimestampForked(c.holocene, t)
IsIsthmus(c, t) == isTimestampForked(c.isthmus, t)
IsOptimism(c) == c.optimism

LatestFork(c, t) ==
  IF IsOsaka(c, c.london, t) THEN "Osaka"
  ELSE IF IsPrague(c, c.london, t) THEN "Prague"
  ELSE IF IsCancun(c, c.london, t) THEN "Cancun"
  ELSE IF IsShanghai(c, c.london, t) THEN "Shanghai"
  ELSE "Paris"

(* ------------------------------------------------------------------ *)
(* Generic helpers for Go maps and the bounded queues                  *)
(* ------------------------------------------------------------------ *)
MapPut(m, k, v) == [x \in (DOMAIN m) \cup {k} |-> IF x = k THEN v ELSE m[x]]
MapDel(m, ks) == [x \in (DOMAIN m) \ ks |-> m[x]]
EmptyMap == [x \in {} |-> 0]

SeqKeys(q) == {q[i].key : i \in 1..Len(q)}
\* queue put: overwrite an entry with the same key, else insert as the newest
\* entry and drop the oldest one beyond the capacity
QueuePut(q, k, v, cap) ==
  IF k \in SeqKeys(q)
  THEN [i \in 1..Len(q) |-> IF q[i].key = k THEN [key |-> k, val |-> v] ELSE q[i]]
  ELSE LET n == <<[key |-> k, val |-> v]>> \o q
       IN IF Len(n) > cap THEN SubSeq(n, 1, cap) ELSE n
QueueHas(q, k) == k \in SeqKeys(q)

(* ------------------------------------------------------------------ *)
(* State                                                               *)
(* ------------------------------------------------------------------ *)
VARIABLES
  cfg,                  \* api.eth.BlockChain().Config()
  snapSync,             \* s.handler.snapSync
  pivot,                \* rawdb.ReadLastPivotNumber, Nil when unset
  stateOf,              \* blocks whose state is locally available
  known,                \* blocks stored locally (GetBlockByHash finds them)
  head,                 \* BlockChain.CurrentBlock(): the canonical tip
  safe,                 \* stored safe pointer, ZeroHash when unset
  finalized,            \* stored finalized pointer, ZeroHash when unset
  synced,               \* s.handler.synced
  remoteBlocks,         \* api.remoteBlocks
  localBlocks,          \* api.localBlocks
  invalidBlocksHits,    \* api.invalidBlocksHits
  invalidTipsets,       \* api.invalidTipsets: tip hash -> bad ancestor header
  lastForkchoiceUpdate, \* api.lastForkchoiceUpdate, 0 is the zero time
  lastNewPayloadUpdate, \* api.lastNewPayloadUpdate, 0 is the zero time
  clock,                \* time.Now() as a logical clock
  forkchoiceLock,       \* holder of api.forkchoiceLock, NoProc when free
  newPayloadLock,       \* holder of api.newPayloadLock, NoProc when free
  pc,                   \* position of each request goroutine
  arg,                  \* arguments of the call a goroutine runs
  res,                  \* response of the call, read at pc = "ret"
  pre,                  \* engine state seen when the call was made
  execCount,            \* InsertBlockWithoutSetHead invocations per block
  buildCount,           \* Miner.BuildPayload invocations per payload ID
  nbad,                 \* bad-block callbacks delivered so far
  beaconSyncCalls,      \* Downloader.BeaconSync invocations per target header
  beaconExtendCalls,    \* Downloader.BeaconExtend invocations per header
  setCanonicalCalls,    \* BlockChain.SetCanonical invocations per block
  getBlobsCalls,        \* TxPool.GetBlobs invocations
  holder,               \* holder of each of the six mutexes, NoProc when free
  todo                  \* lock operations a goroutine still has to make

nodeVars == <<cfg, snapSync, pivot>>
chainVars == <<stateOf, known, head, safe, finalized, synced>>
cacheVars == <<remoteBlocks, localBlocks>>
trackerVars == <<invalidBlocksHits, invalidTipsets>>
liveVars == <<lastForkchoiceUpdate, lastNewPayloadUpdate, clock>>
lockVars == <<forkchoiceLock, newPayloadLock>>
callVars == <<pc, arg, res, pre>>
countVars == <<execCount, buildCount, nbad>>
collabVars == <<beaconSyncCalls, beaconExtendCalls, setCanonicalCalls>>
poolVars == <<getBlobsCalls>>
orderVars == <<holder, todo>>
vars == <<nodeVars, chainVars, cacheVars, trackerVars, liveVars, lockVars,
          callVars, countVars, collabVars, poolVars, orderVars>>

\* the engine state a call can observe or change
Snapshot ==
  [head |-> head, safe |-> safe, finalized |-> finalized, known |-> known,
   stateOf |-> stateOf, synced |-> synced,
   remoteBlocks |-> remoteBlocks, localBlocks |-> localBlocks,
   invalidBlocksHits |-> invalidBlocksHits, invalidTipsets |-> invalidTipsets,
   lastForkchoiceUpdate |-> lastForkchoiceUpdate,
   lastNewPayloadUpdate |-> lastNewPayloadUpdate,
   execCount |-> execCount, buildCount |-> buildCount,
   beaconSyncCalls |-> beaconSyncCalls,
   beaconExtendCalls |-> beaconExtendCalls,
   setCanonicalCalls |-> setCanonicalCalls,
   getBlobsCalls |-> getBlobsCalls]

(* ------------------------------------------------------------------ *)
(* Values exchanged with the driver                                    *)
(* ------------------------------------------------------------------ *)
NoArg == [kind |-> "none"]
NoId == [parent |-> Nil, ts |-> Nil, rnd |-> Nil, fee |-> Nil,
         wd |-> FALSE, br |-> FALSE, ver |-> Nil]
NoRes == [status |-> "none", lvh |-> NilHash, id |-> NoId, err |-> "", via |-> ""]
NilAttrs == [present |-> FALSE, ts |-> 0, rnd |-> 0, fee |-> 0, wd |-> FALSE,
             br |-> FALSE, gl |-> FALSE, eip |-> "empty", noTxPool |-> FALSE,
             txOk |-> TRUE]

\* engine.STATUS_INVALID / STATUS_SYNCING with an optional error
StatusOnly(st, e, site) ==
  [status |-> st, lvh |-> NilHash, id |-> NoId, err |-> e, via |-> site]
\* the closure valid(id) of forkchoiceUpdated
valid(hd, id, e, site) ==
  [status |-> "VALID", lvh |-> hd, id |-> id, err |-> e, via |-> site]

\* rawdb.ReadCanonicalHash: the canonical chain is the tip and its ancestors
ReadCanonicalHash(n) == AncestorAt(head, n)

\* variant: only the snap-sync flag decides the mode
SyncMode_FlagOnly == IF snapSync THEN "snap" ELSE "full"

\* Ethereum.SyncMode
SyncMode ==
  IF snapSync THEN "snap"
  ELSE IF pivot # Nil /\ Number[head] < pivot THEN "snap"
  ELSE IF head \notin stateOf THEN "snap"
  ELSE "full"

\* eip1559.ValidateHolocene1559Params / ValidateHoloceneExtraData on the
\* classes of byte strings "empty", "wellformed", "malformed"
ValidateHolocene1559Params(eip) == eip = "wellformed"
ValidateHoloceneExtraData(extra) == extra = "wellformed"

\* BuildPayloadArgs.Id
PayloadId(parent, a, ver) ==
  [parent |-> parent, ts |-> a.ts, rnd |-> a.rnd, fee |-> a.fee,
   wd |-> a.wd, br |-> a.br, ver |-> ver]

(* ------------------------------------------------------------------ *)
(* Invalid-ancestor tracker                                            *)
(* ------------------------------------------------------------------ *)
\* Go's m[k]++ on a map: a missing key counts as 0
HitsInc(h, k) == MapPut(h, k, (IF k \in DOMAIN h THEN h[k] ELSE 0) + 1)

\* variant: the proof-of-work parent is reported as it is, not zeroed
TrackerLatestValid_NoZeroing(bad) == ParentHash[bad]

\* latest valid hash reported for the bad ancestor bad (lines 1233-1236)
TrackerLatestValid(bad) ==
  IF ParentHash[bad] \in known /\ Difficulty[ParentHash[bad]] # 0
  THEN ZeroHash ELSE ParentHash[bad]

\* hashes of blocks outside the modelled tree whose import failed in
\* new-payload before; no call of the model refers to them, so they are
\* interchangeable
FailedElsewhere == (Cardinality(Blocks) + 1) .. (Cardinality(Blocks) + invalidTipsetsCap)

\* variant: the capacity loop deletes nothing
EvictionChoices_NoEviction(tips) == {{}}

\* the sets of tipset keys the capacity loop may delete (lines 1224-1229):
\* Go iterates a map in an unspecified order, so while the map holds
\* invalidTipsetsCap entries or more any key goes. Of the interchangeable
\* hashes of FailedElsewhere the greatest ones stand for any choice.
EvictionChoices(tips) ==
  LET n == Cardinality(DOMAIN tips)
      k == IF n < invalidTipsetsCap THEN 0 ELSE n - invalidTipsetsCap + 1
      tree == (DOMAIN tips) \cap Blocks
      far == (DOMAIN tips) \ Blocks
      \* the j greatest of the hashes in far (far is an initial part of
      \* FailedElsewhere)
      Greatest(j) ==
        {f \in far : f > Cardinality(Blocks) + Cardinality(far) - j}
      \* the subsets of S with j elements, j <= 2 in every use
      KSubsets(S, j) ==
        IF j = 0 THEN {{}}
        ELSE IF j = 1 THEN {{x} : x \in S}
        ELSE {v \in SUBSET S : Cardinality(v) = j}
  IN {v \cup Greatest(k - Cardinality(v)) :
        v \in {w \in UNION {KSubsets(tree, j) : j \in 0..k} :
                 k - Cardinality(w) <= Cardinality(far)}}

\* variant: at the threshold only the looked-up tip is forgotten
checkInvalidAncestorOn_EvictOne(hits, tips, check, hd) ==
  IF check \notin DOMAIN tips
  THEN {[rejected |-> FALSE, lvh |-> NilHash, hits |-> hits, tips |-> tips]}
  ELSE LET badHash == tips[check]
           h1 == HitsInc(hits, badHash)
       IN IF h1[badHash] >= invalidBlockHitEviction
          THEN {[rejected |-> FALSE, lvh |-> NilHash,
                 hits |-> MapDel(h1, {badHash}),
                 tips |-> MapDel(tips, {check})]}
          ELSE IF check # hd
          THEN {[rejected |-> TRUE, lvh |-> TrackerLatestValid(badHash),
                 hits |-> h1,
                 tips |-> MapPut(MapDel(tips, v), hd, badHash)]
                : v \in EvictionChoices(tips)}
          ELSE {[rejected |-> TRUE, lvh |-> TrackerLatestValid(badHash),
                 hits |-> h1, tips |-> tips]}

\* variant: the taint is dropped only once the count exceeds the threshold
checkInvalidAncestorOn_LateEviction(hits, tips, check, hd) ==
  IF check \notin DOMAIN tips
  THEN {[rejected |-> FALSE, lvh |-> NilHash, hits |-> hits, tips |-> tips]}
  ELSE LET badHash == tips[check]
           h1 == HitsInc(hits, badHash)
       IN IF h1[badHash] > invalidBlockHitEviction
          THEN {[rejected |-> FALSE, lvh |-> NilHash,
                 hits |-> MapDel(h1, {badHash}),
                 tips |-> MapDel(tips, {d \in DOMAIN tips : tips[d] = badHash})]}
          ELSE IF check # hd
          THEN {[rejected |-> TRUE, lvh |-> TrackerLatestValid(badHash),
                 hits |-> h1,
                 tips |-> MapPut(MapDel(tips, v), hd, badHash)]
                : v \in EvictionChoices(tips)}
          ELSE {[rejected |-> TRUE, lvh |-> TrackerLatestValid(badHash),
                 hits |-> h1, tips |-> tips]}

\* variant: the new entry is recorded the wrong way round
checkInvalidAncestorOn_Reversed(hits, tips, check, hd) ==
  IF check \notin DOMAIN tips
  THEN {[rejected |-> FALSE, lvh |-> NilHash, hits |-> hits, tips |-> tips]}
  ELSE LET badHash == tips[check]
           h1 == HitsInc(hits, badHash)
       IN IF h1[badHash] >= invalidBlockHitEviction
          THEN {[rejected |-> FALSE, lvh |-> NilHash,
                 hits |-> MapDel(h1, {badHash}),
                 tips |-> MapDel(tips, {d \in DOMAIN tips : tips[d] = badHash})]}
          ELSE IF check # hd
          THEN {[rejected |-> TRUE, lvh |-> TrackerLatestValid(badHash),
                 hits |-> h1,
                 tips |-> MapPut(MapDel(tips, v), badHash, hd)]
                : v \in EvictionChoices(tips)}
          ELSE {[rejected |-> TRUE, lvh |-> TrackerLatestValid(badHash),
                 hits |-> h1, tips |-> tips]}

\* checkInvalidAncestor(check, head) run on the tracker maps hits and tips:
\* the possible outcomes, each with the rejection (or none) and the maps it
\* leaves behind
checkInvalidAncestorOn(hits, tips, check, hd) ==
  IF check \notin DOMAIN tips
  THEN {[rejected |-> FALSE, lvh |-> NilHash, hits |-> hits, tips |-> tips]}
  ELSE LET badHash == tips[check]
           h1 == HitsInc(hits, badHash)
       IN IF h1[badHash] >= invalidBlockHitEviction
          THEN {[rejected |-> FALSE, lvh |-> NilHash,
                 hits |-> MapDel(h1, {badHash}),
                 tips |-> MapDel(tips, {d \in DOMAIN tips : tips[d] = badHash})]}
          ELSE IF check # hd
          THEN {[rejected |-> TRUE, lvh |-> TrackerLatestValid(badHash),
                 hits |-> h1,
                 tips |-> MapPut(MapDel(tips, v), hd, badHash)]
                : v \in EvictionChoices(tips)}
          ELSE {[rejected |-> TRUE, lvh |-> TrackerLatestValid(badHash),
                 hits |-> h1, tips |-> tips]}

checkInvalidAncestor(check, hd) ==
  checkInvalidAncestorOn(invalidBlocksHits, invalidTipsets, check, hd)

\* variant: the hash of a proof-of-work parent is reported as it is
invalid_NoZeroing(e, latestValid, site) ==
  [status |-> "INVALID",
   lvh |-> IF latestValid = Nil THEN NilHash ELSE latestValid,
   id |-> NoId, err |-> "", via |-> site]

\* variant: the error is returned to the caller next to the status
invalid_RawError(e, latestValid, site) ==
  [status |-> "INVALID",
   lvh |-> IF latestValid = Nil THEN NilHash
           ELSE IF Difficulty[latestValid] # 0 THEN ZeroHash ELSE latestValid,
   id |-> NoId, err |-> e, via |-> site]

\* api.invalid(err, latestValid): latestValid is a header or Nil
invalid(e, latestValid, site) ==
  [status |-> "INVALID",
   lvh |-> IF latestValid = Nil THEN NilHash
           ELSE IF Difficulty[latestValid] # 0 THEN ZeroHash ELSE latestValid,
   id |-> NoId, err |-> "", via |-> site]

\* variant: the report records the origin but counts no hit
setInvalidAncestor_NoHit(bad, origin) ==
  /\ nbad < MaxBadBlocks
  /\ invalidTipsets' = MapPut(invalidTipsets, origin, bad)
  /\ nbad' = nbad + 1
  /\ UNCHANGED <<nodeVars, orderVars, poolVars, collabVars, chainVars, cacheVars, liveVars, lockVars, callVars,
                 execCount, buildCount, invalidBlocksHits>>

\* setInvalidAncestor: the downloader reports the bad header bad met while
\* syncing towards origin
setInvalidAncestor(bad, origin) ==
  /\ nbad < MaxBadBlocks
  /\ invalidTipsets' = MapPut(invalidTipsets, origin, bad)
  /\ invalidBlocksHits' = HitsInc(invalidBlocksHits, bad)
  /\ nbad' = nbad + 1
  /\ UNCHANGED <<nodeVars, orderVars, poolVars, collabVars, chainVars, cacheVars, liveVars, lockVars, callVars,
                 execCount, buildCount>>

(* ------------------------------------------------------------------ *)
(* Fork-choice-update                                                  *)
(* ------------------------------------------------------------------ *)
\* variant: V2 takes Shanghai attributes without withdrawals and V3 takes
\* attributes of any fork
FcuGate_Lax(c, ver, a) ==
  IF ~a.present THEN "ok"
  ELSE IF ver = 1 THEN
    IF a.wd \/ a.br THEN "InvalidParams"
    ELSE IF IsShanghai(c, c.london, a.ts) THEN "InvalidParams"
    ELSE "ok"
  ELSE IF ver = 2 THEN
    IF a.br THEN "InvalidPayloadAttributes"
    ELSE IF LatestFork(c, a.ts) = "Paris" THEN
      IF a.wd THEN "InvalidPayloadAttributes" ELSE "ok"
    ELSE IF LatestFork(c, a.ts) = "Shanghai" THEN "ok"
    ELSE "UnsupportedFork"
  ELSE
    IF ~a.wd THEN "InvalidPayloadAttributes"
    ELSE IF ~a.br THEN "InvalidPayloadAttributes"
    ELSE "ok"

\* the checks ForkchoiceUpdatedV1/V2/V3 (and the WithWitness variants) make
\* before calling forkchoiceUpdated: "ok" or the error class returned
FcuGate(c, ver, a) ==
  IF ~a.present THEN "ok"
  ELSE IF ver = 1 THEN
    IF a.wd \/ a.br THEN "InvalidParams"
    ELSE IF IsShanghai(c, c.london, a.ts) THEN "InvalidParams"
    ELSE "ok"
  ELSE IF ver = 2 THEN
    IF a.br THEN "InvalidPayloadAttributes"
    ELSE IF LatestFork(c, a.ts) = "Paris" THEN
      IF a.wd THEN "InvalidPayloadAttributes" ELSE "ok"
    ELSE IF LatestFork(c, a.ts) = "Shanghai" THEN
      IF ~a.wd THEN "InvalidPayloadAttributes" ELSE "ok"
    ELSE "UnsupportedFork"
  ELSE
    IF ~a.wd THEN "InvalidPayloadAttributes"
    ELSE IF ~a.br THEN "InvalidPayloadAttributes"
    ELSE IF LatestFork(c, a.ts) # "Cancun" /\ LatestFork(c, a.ts) # "Prague"
      THEN "UnsupportedFork"
    ELSE "ok"

\* a call returns: the response is held at "ret" until the driver reads it
Respond(t, r) ==
  /\ pc' = [pc EXCEPT ![t] = "ret"]
  /\ res' = [res EXCEPT ![t] = r]

\* ForkchoiceUpdatedVn / ForkchoiceUpdatedWithWitnessVn is called
ForkchoiceUpdatedCall(t, ver, wit, hd, sf, fn, a) ==
  /\ pc[t] = "idle"
  /\ clock < MaxClock
  /\ arg' = [arg EXCEPT ![t] = [kind |-> "fcu", ver |-> ver, wit |-> wit,
                                head |-> hd, safe |-> sf, fin |-> fn, attrs |-> a]]
  /\ pre' = [pre EXCEPT ![t] = Snapshot]
  /\ IF FcuGate(cfg, ver, a) # "ok"
     THEN Respond(t, StatusOnly("INVALID", FcuGate(cfg, ver, a), "gate"))
     ELSE /\ pc' = [pc EXCEPT ![t] = "fcu_lock"]
          /\ res' = [res EXCEPT ![t] = NoRes]
  /\ UNCHANGED <<nodeVars, orderVars, poolVars, collabVars, chainVars, cacheVars, trackerVars, liveVars,
                 lockVars, countVars>>

\* variant: the lock is taken over from its holder
FcuAcquire_NoWait(t) ==
  /\ pc[t] = "fcu_lock"
  /\ forkchoiceLock' = t
  /\ pc' = [pc EXCEPT ![t] = "fcu_head"]
  /\ UNCHANGED <<nodeVars, orderVars, poolVars, collabVars, chainVars, cacheVars, trackerVars, liveVars,
                 newPayloadLock, arg, res, pre, countVars>>

\* variant: one lock for both kinds of call
FcuAcquire_SharedLock(t) ==
  /\ pc[t] = "fcu_lock"
  /\ forkchoiceLock = NoProc
  /\ newPayloadLock = NoProc
  /\ forkchoiceLock' = t
  /\ pc' = [pc EXCEPT ![t] = "fcu_head"]
  /\ UNCHANGED <<nodeVars, orderVars, poolVars, collabVars, chainVars, cacheVars, trackerVars, liveVars,
                 newPayloadLock, arg, res, pre, countVars>>

\* api.forkchoiceLock.Lock()
FcuAcquire(t) ==
  /\ pc[t] = "fcu_lock"
  /\ forkchoiceLock = NoProc
  /\ forkchoiceLock' = t
  /\ pc' = [pc EXCEPT ![t] = "fcu_head"]
  /\ UNCHANGED <<nodeVars, orderVars, poolVars, collabVars, chainVars, cacheVars, trackerVars, liveVars,
                 newPayloadLock, arg, res, pre, countVars>>

\* return from forkchoiceUpdated: the deferred Unlock runs
FcuReturn(t, r) ==
  /\ Respond(t, r)
  /\ forkchoiceLock' = NoProc

\* variant: the remote-header cache is consulted before the tracker
FcuUnknownHead_CacheFirst(t, u) ==
  IF QueueHas(remoteBlocks, u.head)
  THEN /\ beaconSyncCalls' = [beaconSyncCalls EXCEPT ![u.head] = @ + 1]
       /\ UNCHANGED trackerVars
       /\ \E ok \in BOOLEAN :
            FcuReturn(t, StatusOnly("SYNCING",
                        IF ok THEN "" ELSE "BeaconSync", "sync"))
  ELSE \E o \in checkInvalidAncestor(u.head, u.head) :
         /\ invalidBlocksHits' = o.hits
         /\ invalidTipsets' = o.tips
         /\ UNCHANGED beaconSyncCalls
         /\ IF o.rejected
            THEN FcuReturn(t, [status |-> "INVALID", lvh |-> o.lvh,
                               id |-> NoId, err |-> "", via |-> "tracker"])
            ELSE FcuReturn(t, StatusOnly("SYNCING", "", "unknown"))

\* variant: a head that was advertised by a new-payload is answered SYNCING
\* without asking the downloader to sync to it
FcuUnknownHead_NoSync(t, u) ==
  \E o \in checkInvalidAncestor(u.head, u.head) :
    /\ invalidBlocksHits' = o.hits
    /\ invalidTipsets' = o.tips
    /\ UNCHANGED beaconSyncCalls
    /\ IF o.rejected
       THEN FcuReturn(t, [status |-> "INVALID", lvh |-> o.lvh,
                          id |-> NoId, err |-> "", via |-> "tracker"])
       ELSE IF ~QueueHas(remoteBlocks, u.head)
       THEN FcuReturn(t, StatusOnly("SYNCING", "", "unknown"))
       ELSE FcuReturn(t, StatusOnly("SYNCING", "", "sync"))

\* lines 435-467: the head is not stored locally; tracker, remote-header
\* cache, Downloader.BeaconSync towards the advertised header
FcuUnknownHead(t, u) ==
  \E o \in checkInvalidAncestor(u.head, u.head) :
    /\ invalidBlocksHits' = o.hits
    /\ invalidTipsets' = o.tips
    /\ IF o.rejected
       THEN /\ FcuReturn(t, [status |-> "INVALID", lvh |-> o.lvh,
                             id |-> NoId, err |-> "", via |-> "tracker"])
            /\ UNCHANGED beaconSyncCalls
       ELSE IF ~QueueHas(remoteBlocks, u.head)
       THEN /\ FcuReturn(t, StatusOnly("SYNCING", "", "unknown"))
            /\ UNCHANGED beaconSyncCalls
       ELSE /\ beaconSyncCalls' = [beaconSyncCalls EXCEPT ![u.head] = @ + 1]
            /\ \E ok \in BOOLEAN :
                 FcuReturn(t, StatusOnly("SYNCING",
                             IF ok THEN "" ELSE "BeaconSync", "sync"))

\* variant: a stored head is taken without the terminal-block check
FcuKnownHead_NoTerminalCheck(t, u) ==
  /\ pc' = [pc EXCEPT ![t] = "fcu_canon"]
  /\ UNCHANGED <<res, forkchoiceLock>>

\* lines 468-479: the head is stored locally; terminal-block sanity check
FcuKnownHead(t, u) ==
  IF Difficulty[u.head] > 0 /\ Number[u.head] > 0
  THEN IF ParentHash[u.head] \notin known
       THEN FcuReturn(t, StatusOnly("INVALID", "parent unavailable", "noparent"))
       ELSE IF Difficulty[ParentHash[u.head]] = 0
       THEN FcuReturn(t, StatusOnly("INVALID_TERMINAL_BLOCK", "", "terminal"))
       ELSE /\ pc' = [pc EXCEPT ![t] = "fcu_canon"]
            /\ UNCHANGED <<res, forkchoiceLock>>
  ELSE /\ pc' = [pc EXCEPT ![t] = "fcu_canon"]
       /\ UNCHANGED <<res, forkchoiceLock>>

\* variant: the liveness stamp is taken before the zero head is rejected
FcuResolveHead_StampFirst(t) ==
  /\ pc[t] = "fcu_head"
  /\ lastForkchoiceUpdate' = clock + 1
  /\ clock' = clock + 1
  /\ UNCHANGED lastNewPayloadUpdate
  /\ LET u == arg[t] IN
     IF u.head = ZeroHash
     THEN /\ FcuReturn(t, StatusOnly("INVALID", "", "zero"))
          /\ UNCHANGED <<trackerVars, beaconSyncCalls>>
     ELSE IF u.head \notin known
     THEN FcuUnknownHead(t, u)
     ELSE /\ FcuKnownHead(t, u)
          /\ UNCHANGED <<trackerVars, beaconSyncCalls>>
  /\ UNCHANGED <<nodeVars, orderVars, poolVars, chainVars, cacheVars, newPayloadLock, arg, pre,
                 countVars, beaconExtendCalls, setCanonicalCalls>>

\* lines 421-479: zero head, liveness stamp, head resolution
FcuResolveHead(t) ==
  /\ pc[t] = "fcu_head"
  /\ LET u == arg[t] IN
     IF u.head = ZeroHash
     THEN /\ FcuReturn(t, StatusOnly("INVALID", "", "zero"))
          /\ UNCHANGED <<trackerVars, liveVars, beaconSyncCalls>>
     ELSE
       /\ lastForkchoiceUpdate' = clock + 1
       /\ clock' = clock + 1
       /\ UNCHANGED lastNewPayloadUpdate
       /\ IF u.head \notin known
          THEN FcuUnknownHead(t, u)
          ELSE /\ FcuKnownHead(t, u)
               /\ UNCHANGED <<trackerVars, beaconSyncCalls>>
  /\ UNCHANGED <<nodeVars, orderVars, poolVars, chainVars, cacheVars, newPayloadLock, arg, pre,
                 countVars, beaconExtendCalls, setCanonicalCalls>>

\* BlockChain.SetCanonical(block): succeeds when the state of the block is
\* available or can be recovered, else fails with the last valid hash
SetCanonicalOutcomes(b) ==
  IF b \in stateOf THEN {[ok |-> TRUE, latestValid |-> b]}
  ELSE {[ok |-> TRUE, latestValid |-> b], [ok |-> FALSE, latestValid |-> head]}

\* variant: every head other than the current tip is handed to SetCanonical
HeadNotCanonical_NotTip(hd) == hd # head

\* variant: SetCanonical is called for every head
HeadNotCanonical_Always(hd) == TRUE

\* line 486: the head is not the canonical block of its number
HeadNotCanonical(hd) == ReadCanonicalHash(Number[hd]) # hd

\* variant: an old canonical head is ignored on an optimism chain as well
FcuSetCanonical_IgnoreOldHead(t) ==
  /\ pc[t] = "fcu_canon"
  /\ LET u == arg[t] IN
     IF HeadNotCanonical(u.head)
     THEN /\ setCanonicalCalls' = [setCanonicalCalls EXCEPT ![u.head] = @ + 1]
          /\ \E o \in SetCanonicalOutcomes(u.head) :
               IF o.ok
               THEN /\ head' = u.head
                    /\ stateOf' = stateOf \cup {u.head}
                    /\ synced' = TRUE
                    /\ pc' = [pc EXCEPT ![t] = "fcu_final"]
                    /\ UNCHANGED <<res, forkchoiceLock>>
               ELSE /\ FcuReturn(t, [status |-> "INVALID", lvh |-> o.latestValid,
                                     id |-> NoId, err |-> "SetCanonical",
                                     via |-> "setcanonical"])
                    /\ UNCHANGED <<head, stateOf, synced>>
     ELSE IF head = u.head
     THEN /\ synced' = TRUE
          /\ pc' = [pc EXCEPT ![t] = "fcu_final"]
          /\ UNCHANGED <<head, stateOf, res, forkchoiceLock, setCanonicalCalls>>
     ELSE /\ FcuReturn(t, valid(u.head, NoId, "", "stale"))
          /\ UNCHANGED <<head, stateOf, synced, setCanonicalCalls>>
  /\ UNCHANGED <<nodeVars, orderVars, poolVars, known, safe, finalized, cacheVars, trackerVars,
                 liveVars, newPayloadLock, arg, pre, countVars,
                 beaconSyncCalls, beaconExtendCalls>>

\* lines 486-501: reorganise to a non-canonical head, keep the tip, or
\* ignore an old canonical head; then SetSynced
FcuSetCanonical(t) ==
  /\ pc[t] = "fcu_canon"
  /\ LET u == arg[t] IN
     IF HeadNotCanonical(u.head)
     THEN /\ setCanonicalCalls' = [setCanonicalCalls EXCEPT ![u.head] = @ + 1]
          /\ \E o \in SetCanonicalOutcomes(u.head) :
               IF o.ok
               THEN /\ head' = u.head
                    /\ stateOf' = stateOf \cup {u.head}
                    /\ synced' = TRUE
                    /\ pc' = [pc EXCEPT ![t] = "fcu_final"]
                    /\ UNCHANGED <<res, forkchoiceLock>>
               ELSE /\ FcuReturn(t, [status |-> "INVALID", lvh |-> o.latestValid,
                                     id |-> NoId, err |-> "SetCanonical",
                                     via |-> "setcanonical"])
                    /\ UNCHANGED <<head, stateOf, synced>>
     ELSE IF head = u.head \/ cfg.optimism
     THEN /\ synced' = TRUE
          /\ pc' = [pc EXCEPT ![t] = "fcu_final"]
          /\ UNCHANGED <<head, stateOf, res, forkchoiceLock, setCanonicalCalls>>
     ELSE /\ FcuReturn(t, valid(u.head, NoId, "", "stale"))
          /\ UNCHANGED <<head, stateOf, synced, setCanonicalCalls>>
  /\ UNCHANGED <<nodeVars, orderVars, poolVars, known, safe, finalized, cacheVars, trackerVars,
                 liveVars, newPayloadLock, arg, pre, countVars,
                 beaconSyncCalls, beaconExtendCalls>>

\* variant: the finalized hash only has to be a known block
FcuSetFinalized_AnyKnown(t) ==
  /\ pc[t] = "fcu_final"
  /\ LET u == arg[t] IN
     IF u.fin # ZeroHash
     THEN IF u.fin \notin known
          THEN /\ FcuReturn(t, StatusOnly("INVALID", "InvalidForkChoiceState", "final-unknown"))
               /\ UNCHANGED finalized
          ELSE IF FALSE
          THEN /\ FcuReturn(t, StatusOnly("INVALID", "InvalidForkChoiceState", "final-noncanonical"))
               /\ UNCHANGED finalized
          ELSE /\ finalized' = u.fin
               /\ pc' = [pc EXCEPT ![t] = "fcu_safe"]
               /\ UNCHANGED <<res, forkchoiceLock>>
     ELSE /\ pc' = [pc EXCEPT ![t] = "fcu_safe"]
          /\ UNCHANGED <<finalized, res, forkchoiceLock>>
  /\ UNCHANGED <<nodeVars, orderVars, poolVars, collabVars, stateOf, known, head, safe, synced, cacheVars,
                 trackerVars, liveVars, newPayloadLock, arg, pre, countVars>>

\* lines 505-517: the finalized hash must be a known canonical block
FcuSetFinalized(t) ==
  /\ pc[t] = "fcu_final"
  /\ LET u == arg[t] IN
     IF u.fin # ZeroHash
     THEN IF u.fin \notin known
          THEN /\ FcuReturn(t, StatusOnly("INVALID", "InvalidForkChoiceState", "final-unknown"))
               /\ UNCHANGED finalized
          ELSE IF ReadCanonicalHash(Number[u.fin]) # u.fin
          THEN /\ FcuReturn(t, StatusOnly("INVALID", "InvalidForkChoiceState", "final-noncanonical"))
               /\ UNCHANGED finalized
          ELSE /\ finalized' = u.fin
               /\ pc' = [pc EXCEPT ![t] = "fcu_safe"]
               /\ UNCHANGED <<res, forkchoiceLock>>
     ELSE /\ pc' = [pc EXCEPT ![t] = "fcu_safe"]
          /\ UNCHANGED <<finalized, res, forkchoiceLock>>
  /\ UNCHANGED <<nodeVars, orderVars, poolVars, collabVars, stateOf, known, head, safe, synced, cacheVars,
                 trackerVars, liveVars, newPayloadLock, arg, pre, countVars>>

\* lines 519-536 and 587: the safe hash must be a known canonical block;
\* without payload attributes the call returns valid(nil)
FcuSetSafe(t) ==
  /\ pc[t] = "fcu_safe"
  /\ LET u == arg[t]
         next == IF u.attrs.present
                 THEN /\ pc' = [pc EXCEPT ![t] = "fcu_build"]
                      /\ UNCHANGED <<res, forkchoiceLock>>
                 ELSE FcuReturn(t, valid(u.head, NoId, "", "noattrs"))
     IN
     IF u.safe # ZeroHash
     THEN IF u.safe \notin known
          THEN /\ FcuReturn(t, StatusOnly("INVALID", "InvalidForkChoiceState", "safe-unknown"))
               /\ UNCHANGED safe
          ELSE IF ReadCanonicalHash(Number[u.safe]) # u.safe
          THEN /\ FcuReturn(t, StatusOnly("INVALID", "InvalidForkChoiceState", "safe-noncanonical"))
               /\ UNCHANGED safe
          ELSE /\ safe' = u.safe
               /\ next
     ELSE /\ UNCHANGED safe
          /\ next
  /\ UNCHANGED <<nodeVars, orderVars, poolVars, collabVars, stateOf, known, head, finalized, synced, cacheVars,
                 trackerVars, liveVars, newPayloadLock, arg, pre, countVars>>

\* variant: the gas limit is not required
OpAttributesCheck_NoGasLimit(c, a) ==
  IF ~c.optimism THEN "ok"
  ELSE IF IsHolocene(c, a.ts)
    THEN IF ValidateHolocene1559Params(a.eip) THEN "ok" ELSE "InvalidPayloadAttributes"
  ELSE IF a.eip # "empty" THEN "InvalidPayloadAttributes"
  ELSE "ok"

\* lines 538-551: the OP-Stack checks on the attributes, "ok" or the error
OpAttributesCheck(c, a) ==
  IF ~c.optimism THEN "ok"
  ELSE IF ~a.gl THEN "InvalidPayloadAttributes"
  ELSE IF IsHolocene(c, a.ts)
    THEN IF ValidateHolocene1559Params(a.eip) THEN "ok" ELSE "InvalidPayloadAttributes"
  ELSE IF a.eip # "empty" THEN "InvalidPayloadAttributes"
  ELSE "ok"

\* variant: the cache is not consulted before the builder is started
AlreadyBuilding_Never(id) == FALSE

\* line 576: api.localBlocks.has(id), "we already are busy generating this work"
AlreadyBuilding(id) == QueueHas(localBlocks, id)

\* variant: a failed build still hands out the payload ID
BuildFailed_WithId(hd, id) ==
  valid(hd, id, "InvalidPayloadAttributes", "buildfail")

\* lines 580-583: Miner.BuildPayload failed, valid(nil) with the
\* invalid-payload-attributes error
BuildFailed(hd, id) ==
  valid(hd, NoId, "InvalidPayloadAttributes", "buildfail")

\* lines 536-586: attribute checks, transaction decoding, payload ID,
\* reuse of a cached build or a call of the payload builder
FcuBuildPayload(t) ==
  /\ pc[t] = "fcu_build"
  /\ LET u == arg[t]
         id == PayloadId(u.head, u.attrs, u.ver)
     IN
     IF OpAttributesCheck(cfg, u.attrs) # "ok"
     THEN /\ FcuReturn(t, StatusOnly("INVALID", OpAttributesCheck(cfg, u.attrs), "opattrs"))
          /\ UNCHANGED <<localBlocks, buildCount>>
     ELSE IF ~u.attrs.txOk
     THEN /\ FcuReturn(t, StatusOnly("INVALID", "transaction is not valid", "txdecode"))
          /\ UNCHANGED <<localBlocks, buildCount>>
     ELSE IF AlreadyBuilding(id)
     THEN /\ FcuReturn(t, valid(u.head, id, "", "cached"))
          /\ UNCHANGED <<localBlocks, buildCount>>
     ELSE /\ buildCount' = HitsInc(buildCount, id)
          /\ \E ok \in BOOLEAN :
               IF ok
               THEN /\ localBlocks' = QueuePut(localBlocks, id,
                                        [wit |-> u.wit, noTxPool |-> u.attrs.noTxPool],
                                        MaxTrackedPayloads)
                    /\ FcuReturn(t, valid(u.head, id, "", "built"))
               ELSE /\ UNCHANGED localBlocks
                    /\ FcuReturn(t, BuildFailed(u.head, id))
  /\ UNCHANGED <<nodeVars, orderVars, poolVars, collabVars, chainVars, remoteBlocks, trackerVars, liveVars,
                 newPayloadLock, arg, pre, execCount, nbad>>

\* the driver reads the response; the goroutine ends
Return(t) ==
  /\ pc[t] = "ret"
  /\ pc' = [pc EXCEPT ![t] = "idle"]
  /\ arg' = [arg EXCEPT ![t] = NoArg]
  /\ res' = [res EXCEPT ![t] = NoRes]
  /\ pre' = [pre EXCEPT ![t] = NoArg]
  /\ UNCHANGED <<nodeVars, orderVars, poolVars, collabVars, chainVars, cacheVars, trackerVars, liveVars,
                 lockVars, countVars>>

(* ------------------------------------------------------------------ *)
(* New-payload                                                         *)
(* ------------------------------------------------------------------ *)
\* validateRequests on the classes "nil", "ok", "bad" of request lists
validateRequests(reqs) == reqs # "bad"

\* the checks NewPayloadV1..V4 and NewPayloadWithWitnessV1..V4 make before
\* calling newPayload: "ok" or the error class returned
NpGate(c, ver, wit, p) ==
  IF ver = 1 THEN
    IF p.wd THEN "InvalidParams" ELSE "ok"
  ELSE IF ver = 2 THEN
    IF IsCancun(c, c.london, p.ts) THEN "InvalidParams"
    ELSE IF LatestFork(c, p.ts) = "Shanghai" /\ ~p.wd THEN "InvalidParams"
    ELSE IF LatestFork(c, p.ts) # "Shanghai" /\ p.wd THEN "InvalidParams"
    ELSE IF p.ebg THEN "InvalidParams"
    ELSE IF p.bgu THEN "InvalidParams"
    ELSE "ok"
  ELSE IF ~p.wd \/ ~p.ebg \/ ~p.bgu \/ ~p.vh \/ ~p.br THEN "InvalidParams"
  ELSE IF ver = 3 THEN
    IF LatestFork(c, p.ts) # "Cancun" THEN "UnsupportedFork" ELSE "ok"
  ELSE
    IF p.reqs = "nil" THEN "InvalidParams"
    ELSE IF LatestFork(c, p.ts) # "Prague" THEN "UnsupportedFork"
    ELSE IF ~wit /\ IsIsthmus(c, p.ts) /\ ~p.wroot THEN "InvalidParams"
    ELSE IF ~validateRequests(p.reqs) THEN "InvalidParams"
    ELSE "ok"

\* variant: extra-data is only checked from Holocene on
ExtraDataOk_HoloceneOnly(c, p) ==
  IF IsHolocene(c, p.ts) THEN ValidateHoloceneExtraData(p.extra)
  ELSE TRUE

\* lines 974-983: the extra-data rule newPayload checks before locking
ExtraDataOk(c, p) ==
  IF IsHolocene(c, p.ts) THEN ValidateHoloceneExtraData(p.extra)
  ELSE IF IsOptimism(c) THEN p.extra = "empty"
  ELSE TRUE

\* NewPayloadVn / NewPayloadWithWitnessVn is called
NewPayloadCall(t, ver, wit, p) ==
  /\ pc[t] = "idle"
  /\ clock < MaxClock
  /\ arg' = [arg EXCEPT ![t] = [kind |-> "np", ver |-> ver, wit |-> wit, p |-> p]]
  /\ pre' = [pre EXCEPT ![t] = Snapshot]
  /\ IF NpGate(cfg, ver, wit, p) # "ok"
     THEN Respond(t, StatusOnly("INVALID", NpGate(cfg, ver, wit, p), "gate"))
     ELSE IF ~ExtraDataOk(cfg, p)
     THEN Respond(t, invalid("extraData", Nil, "extradata"))
     ELSE /\ pc' = [pc EXCEPT ![t] = "np_lock"]
          /\ res' = [res EXCEPT ![t] = NoRes]
  /\ UNCHANGED <<nodeVars, orderVars, poolVars, collabVars, chainVars, cacheVars, trackerVars, liveVars,
                 lockVars, countVars>>

\* variant: the lock is taken over from its holder
NpAcquire_NoWait(t) ==
  /\ pc[t] = "np_lock"
  /\ newPayloadLock' = t
  /\ pc' = [pc EXCEPT ![t] = "np_check"]
  /\ UNCHANGED <<nodeVars, orderVars, poolVars, collabVars, chainVars, cacheVars, trackerVars, liveVars,
                 forkchoiceLock, arg, res, pre, countVars>>

\* api.newPayloadLock.Lock()
NpAcquire(t) ==
  /\ pc[t] = "np_lock"
  /\ newPayloadLock = NoProc
  /\ newPayloadLock' = t
  /\ pc' = [pc EXCEPT ![t] = "np_check"]
  /\ UNCHANGED <<nodeVars, orderVars, poolVars, collabVars, chainVars, cacheVars, trackerVars, liveVars,
                 forkchoiceLock, arg, res, pre, countVars>>

\* return from newPayload: the deferred Unlock runs
NpReturn(t, r) ==
  /\ Respond(t, r)
  /\ newPayloadLock' = NoProc

\* variant: a stored parent passes without its state
HasBlockAndState_BlockOnly(h) == h \in known

\* line 1059: BlockChain.HasBlockAndState
HasBlockAndState(h) == h \in known /\ h \in stateOf

\* variant: a block stored locally is not recognised
IsKnownBlock_Never(b) == FALSE

\* lines 1029-1033: GetBlockByHash finds the block of the payload
IsKnownBlock(b) == b \in known

\* headerQueue.put of a header
RemotePut(q, b) == QueuePut(q, b, b, MaxTrackedHeaders)

\* variant: the block is stashed without offering it to the downloader
delayPayloadImport_NoExtend(t, hits, tips, b) ==
  \E o \in checkInvalidAncestorOn(hits, tips, ParentHash[b], b) :
    /\ invalidBlocksHits' = o.hits
    /\ invalidTipsets' = o.tips
    /\ UNCHANGED beaconExtendCalls
    /\ IF o.rejected
       THEN /\ NpReturn(t, [status |-> "INVALID", lvh |-> o.lvh, id |-> NoId,
                            err |-> "", via |-> "tracker-parent"])
            /\ UNCHANGED remoteBlocks
       ELSE /\ remoteBlocks' = RemotePut(remoteBlocks, b)
            /\ NpReturn(t, StatusOnly("SYNCING", "", "delay"))

\* delayPayloadImport(block), entered with the tracker maps hits and tips:
\* the header is stashed, Downloader.BeaconExtend is tried once, and the
\* answer is SYNCING whether or not the downloader took the header
delayPayloadImport(t, hits, tips, b) ==
  \E o \in checkInvalidAncestorOn(hits, tips, ParentHash[b], b) :
    /\ invalidBlocksHits' = o.hits
    /\ invalidTipsets' = o.tips
    /\ IF o.rejected
       THEN /\ NpReturn(t, [status |-> "INVALID", lvh |-> o.lvh, id |-> NoId,
                            err |-> "", via |-> "tracker-parent"])
            /\ UNCHANGED <<remoteBlocks, beaconExtendCalls>>
       ELSE /\ remoteBlocks' = RemotePut(remoteBlocks, b)
            /\ beaconExtendCalls' = [beaconExtendCalls EXCEPT ![b] = @ + 1]
            /\ \E ok \in BOOLEAN :
                 NpReturn(t, StatusOnly("SYNCING", "",
                                        IF ok THEN "extended" ELSE "delay"))

\* variant: a block may carry the timestamp of its parent
TimestampAdvances_OrEqual(b) == Time[b] >= Time[ParentHash[b]]

\* line 1048: the block time is past the parent's
TimestampAdvances(b) == Time[b] > Time[ParentHash[b]]

\* lines 988-1063: decode, liveness stamp, known block, tracker, parent,
\* timestamp, sync mode and parent state
NpCheck(t) ==
  /\ pc[t] = "np_check"
  /\ LET p == arg[t].p
         b == p.blk
     IN
     IF ~p.wellformed
     THEN /\ NpReturn(t, invalid("decode", Nil, "decode"))
          /\ UNCHANGED <<trackerVars, liveVars, remoteBlocks, beaconExtendCalls>>
     ELSE
       /\ lastNewPayloadUpdate' = clock + 1
       /\ clock' = clock + 1
       /\ UNCHANGED lastForkchoiceUpdate
       /\ IF IsKnownBlock(b)
          THEN /\ NpReturn(t, [status |-> "VALID", lvh |-> b, id |-> NoId,
                               err |-> "", via |-> "known"])
               /\ UNCHANGED <<trackerVars, remoteBlocks, beaconExtendCalls>>
          ELSE \E o \in checkInvalidAncestor(b, b) :
            IF o.rejected
            THEN /\ invalidBlocksHits' = o.hits
                 /\ invalidTipsets' = o.tips
                 /\ NpReturn(t, [status |-> "INVALID", lvh |-> o.lvh, id |-> NoId,
                                 err |-> "", via |-> "tracker"])
                 /\ UNCHANGED <<remoteBlocks, beaconExtendCalls>>
            ELSE IF ParentHash[b] \notin known
            THEN delayPayloadImport(t, o.hits, o.tips, b)
            ELSE IF ~TimestampAdvances(b)
            THEN /\ invalidBlocksHits' = o.hits
                 /\ invalidTipsets' = o.tips
                 /\ NpReturn(t, invalid("invalid timestamp", ParentHash[b], "timestamp"))
                 /\ UNCHANGED <<remoteBlocks, beaconExtendCalls>>
            ELSE IF SyncMode # "full"
            THEN delayPayloadImport(t, o.hits, o.tips, b)
            ELSE IF ~HasBlockAndState(ParentHash[b])
            THEN /\ invalidBlocksHits' = o.hits
                 /\ invalidTipsets' = o.tips
                 /\ remoteBlocks' = RemotePut(remoteBlocks, b)
                 /\ NpReturn(t, StatusOnly("ACCEPTED", "", "nostate"))
                 /\ UNCHANGED beaconExtendCalls
            ELSE /\ invalidBlocksHits' = o.hits
                 /\ invalidTipsets' = o.tips
                 /\ pc' = [pc EXCEPT ![t] = "np_exec"]
                 /\ UNCHANGED <<res, newPayloadLock, remoteBlocks, beaconExtendCalls>>
  /\ UNCHANGED <<nodeVars, orderVars, poolVars, chainVars, localBlocks, forkchoiceLock, arg, pre,
                 countVars, beaconSyncCalls, setCanonicalCalls>>

\* variant: a block that executed becomes the canonical head
NpInsert_Promotes(t) ==
  /\ pc[t] = "np_exec"
  /\ LET b == arg[t].p.blk IN
     /\ execCount' = [execCount EXCEPT ![b] = @ + 1]
     /\ \E ok \in BOOLEAN :
          IF ok
          THEN /\ known' = known \cup {b}
               /\ stateOf' = stateOf \cup {b}
               /\ head' = b
               /\ NpReturn(t, [status |-> "VALID", lvh |-> b, id |-> NoId,
                               err |-> "", via |-> "exec"])
               /\ UNCHANGED trackerVars
          ELSE /\ invalidBlocksHits' = MapPut(invalidBlocksHits, b, 1)
               /\ invalidTipsets' = MapPut(invalidTipsets, b, b)
               /\ NpReturn(t, invalid("insert failed", ParentHash[b], "execfail"))
               /\ UNCHANGED <<known, stateOf, head>>
  /\ UNCHANGED <<nodeVars, orderVars, poolVars, collabVars, safe, finalized, synced, cacheVars,
                 liveVars, forkchoiceLock, arg, pre, buildCount, nbad>>

\* lines 1064-1085: InsertBlockWithoutSetHead returns; a failure is recorded
\* in the tracker
NpInsert(t) ==
  /\ pc[t] = "np_exec"
  /\ LET b == arg[t].p.blk IN
     /\ execCount' = [execCount EXCEPT ![b] = @ + 1]
     /\ \E ok \in BOOLEAN :
          IF ok
          THEN /\ known' = known \cup {b}
               /\ stateOf' = stateOf \cup {b}
               /\ NpReturn(t, [status |-> "VALID", lvh |-> b, id |-> NoId,
                               err |-> "", via |-> "exec"])
               /\ UNCHANGED trackerVars
          ELSE /\ invalidBlocksHits' = MapPut(invalidBlocksHits, b, 1)
               /\ invalidTipsets' = MapPut(invalidTipsets, b, b)
               /\ NpReturn(t, invalid("insert failed", ParentHash[b], "execfail"))
               /\ UNCHANGED <<known, stateOf>>
  /\ UNCHANGED <<nodeVars, orderVars, poolVars, collabVars, head, safe, finalized, synced, cacheVars,
                 liveVars, forkchoiceLock, arg, pre, buildCount, nbad>>

(* ------------------------------------------------------------------ *)
(* Calls that only read: execute-stateless-payload, get-payload,       *)
(* get-payload-bodies-by-range, get-blobs                              *)
(* ------------------------------------------------------------------ *)
\* the result of a read call: a value or an error
QueryOk(v) == [status |-> "ok", err |-> "", val |-> v]
QueryError(e) == [status |-> "error", err |-> e, val |-> Nil]

\* the checks ExecuteStatelessPayloadV1..V4 make before calling
\* executeStatelessPayload: "ok" or the error class returned
StatelessGate(c, ver, p) ==
  IF ver = 1 THEN
    IF p.wd THEN "InvalidParams" ELSE "ok"
  ELSE IF ver = 2 THEN
    IF IsCancun(c, c.london, p.ts) THEN "InvalidParams"
    ELSE IF LatestFork(c, p.ts) = "Shanghai" /\ ~p.wd THEN "InvalidParams"
    ELSE IF LatestFork(c, p.ts) # "Shanghai" /\ p.wd THEN "InvalidParams"
    ELSE IF p.ebg THEN "InvalidParams"
    ELSE IF p.bgu THEN "InvalidParams"
    ELSE "ok"
  ELSE IF ~p.wd \/ ~p.ebg \/ ~p.bgu \/ ~p.vh \/ ~p.br THEN "InvalidParams"
  ELSE IF ver = 3 THEN
    IF LatestFork(c, p.ts) # "Cancun" THEN "UnsupportedFork" ELSE "ok"
  ELSE
    IF p.reqs = "nil" THEN "InvalidParams"
    ELSE IF LatestFork(c, p.ts) # "Prague" THEN "UnsupportedFork"
    ELSE "ok"

\* variant: a block that fails stateless execution is recorded in the
\* tracker, as new-payload does
ExecuteStatelessPayloadCall_Records(t, ver, p, witOk) ==
  /\ pc[t] = "idle"
  /\ clock < MaxClock
  /\ arg' = [arg EXCEPT ![t] = [kind |-> "stateless", ver |-> ver, p |-> p,
                                witOk |-> witOk]]
  /\ pre' = [pre EXCEPT ![t] = Snapshot]
  /\ IF StatelessGate(cfg, ver, p) # "ok"
     THEN /\ Respond(t, StatusOnly("INVALID", StatelessGate(cfg, ver, p), "gate"))
          /\ UNCHANGED <<liveVars, trackerVars>>
     ELSE IF ~p.wellformed
     THEN /\ Respond(t, StatusOnly("INVALID", "", "decode"))
          /\ UNCHANGED <<liveVars, trackerVars>>
     ELSE IF ~witOk
     THEN /\ Respond(t, StatusOnly("INVALID", "", "witness"))
          /\ UNCHANGED <<liveVars, trackerVars>>
     ELSE /\ lastNewPayloadUpdate' = clock + 1
          /\ clock' = clock + 1
          /\ UNCHANGED lastForkchoiceUpdate
          /\ \E ok \in BOOLEAN :
               IF ok
               THEN /\ Respond(t, StatusOnly("VALID", "", "stateless"))
                    /\ UNCHANGED trackerVars
               ELSE /\ Respond(t, StatusOnly("INVALID", "", "stateless"))
                    /\ invalidBlocksHits' = MapPut(invalidBlocksHits, p.blk, 1)
                    /\ invalidTipsets' = MapPut(invalidTipsets, p.blk, p.blk)
  /\ UNCHANGED <<nodeVars, orderVars, poolVars, collabVars, chainVars, cacheVars,
                 lockVars, countVars>>

\* ExecuteStatelessPayloadVn (lines 872-945) and executeStatelessPayload
\* (lines 1087-1142): decode the payload and the witness, stamp the
\* new-payload liveness time, execute against the witness
ExecuteStatelessPayloadCall(t, ver, p, witOk) ==
  /\ pc[t] = "idle"
  /\ clock < MaxClock
  /\ arg' = [arg EXCEPT ![t] = [kind |-> "stateless", ver |-> ver, p |-> p,
                                witOk |-> witOk]]
  /\ pre' = [pre EXCEPT ![t] = Snapshot]
  /\ IF StatelessGate(cfg, ver, p) # "ok"
     THEN /\ Respond(t, StatusOnly("INVALID", StatelessGate(cfg, ver, p), "gate"))
          /\ UNCHANGED liveVars
     ELSE IF ~p.wellformed
     THEN /\ Respond(t, StatusOnly("INVALID", "", "decode"))
          /\ UNCHANGED liveVars
     ELSE IF ~witOk
     THEN /\ Respond(t, StatusOnly("INVALID", "", "witness"))
          /\ UNCHANGED liveVars
     ELSE /\ lastNewPayloadUpdate' = clock + 1
          /\ clock' = clock + 1
          /\ UNCHANGED lastForkchoiceUpdate
          /\ \E ok \in BOOLEAN :
               Respond(t, StatusOnly(IF ok THEN "VALID" ELSE "INVALID", "",
                                     "stateless"))
  /\ UNCHANGED <<nodeVars, orderVars, poolVars, collabVars, chainVars, cacheVars, trackerVars,
                 lockVars, countVars>>

\* variant: GetPayloadVn takes the payloads built as version n only
PayloadVersionsOf_Exact(ver) == {ver}

\* lines 622, 634, 642, 650: the payload ID versions GetPayloadVn takes
PayloadVersionsOf(ver) ==
  IF ver = 1 THEN {1}
  ELSE IF ver = 2 THEN {1, 2}
  ELSE {3}

\* payloadQueue.get: the payload cached for id, identified by its id
\* (none when nothing is cached for it)
QueueGet(q, k, none) == IF QueueHas(q, k) THEN k ELSE none

\* getPayload (lines 656-663)
getPayload(id) ==
  LET data == QueueGet(localBlocks, id, NoId)
  IN IF data = NoId THEN QueryError("UnknownPayload") ELSE QueryOk(data)

\* GetPayloadV1..V4 (lines 621-654)
GetPayloadCall(t, ver, id) ==
  /\ pc[t] = "idle"
  /\ arg' = [arg EXCEPT ![t] = [kind |-> "getPayload", ver |-> ver, id |-> id]]
  /\ pre' = [pre EXCEPT ![t] = Snapshot]
  /\ Respond(t, IF id.ver \notin PayloadVersionsOf(ver)
                THEN QueryError("UnsupportedFork")
                ELSE getPayload(id))
  /\ UNCHANGED <<nodeVars, orderVars, poolVars, collabVars, chainVars, cacheVars, trackerVars,
                 liveVars, lockVars, countVars>>

\* BlockChain.GetBlockByNumber: the canonical block with number n, ZeroHash
\* for nil
GetBlockByNumber(n) == ReadCanonicalHash(n)
\* getBody (lines 1397-1400): nil for a nil block
getBody(b) == IF b = ZeroHash THEN Nil ELSE b

\* variant: the request is clipped to the limit instead of being refused
TooManyBodies_Never(count) == FALSE

\* line 1380
TooManyBodies(count) == count > bodiesCountLimit

\* variant: the last number is one past the requested range
RangeLast_OffByOne(start, count, current) ==
  LET last == (start + count) % Uint64Mod
  IN IF last > current THEN current ELSE last

\* lines 1385-1388: last := start + count - 1 in uint64, clipped to the
\* current height
RangeLast(start, count, current) ==
  LET last == (start + count - 1) % Uint64Mod
  IN IF last > current THEN current ELSE last

\* lines 1390-1393: one body per number from start to last
BodiesFrom(start, last) ==
  IF start > last THEN <<>>
  ELSE [i \in 1..(last - start + 1) |-> getBody(GetBlockByNumber(start + i - 1))]

\* GetPayloadBodiesByRangeV1/V2 and getBodiesByRange up to the read of the
\* current height (lines 1366-1388)
GetPayloadBodiesByRangeCall(t, start, count) ==
  /\ pc[t] = "idle"
  /\ arg' = [arg EXCEPT ![t] =
               [kind |-> "getBodies", start |-> start, count |-> count,
                current |-> Number[head],
                last |-> RangeLast(start, count, Number[head])]]
  /\ pre' = [pre EXCEPT ![t] = Snapshot]
  /\ IF start = 0 \/ count = 0
     THEN Respond(t, QueryError("InvalidParams"))
     ELSE IF TooManyBodies(count)
     THEN Respond(t, QueryError("TooLargeRequest"))
     ELSE /\ pc' = [pc EXCEPT ![t] = "gb_loop"]
          /\ res' = [res EXCEPT ![t] = NoRes]
  /\ UNCHANGED <<nodeVars, orderVars, poolVars, collabVars, chainVars, cacheVars, trackerVars,
                 liveVars, lockVars, countVars>>

\* the loop of getBodiesByRange (lines 1389-1394)
GetBodies(t) ==
  /\ pc[t] = "gb_loop"
  /\ Respond(t, QueryOk(BodiesFrom(arg[t].start, arg[t].last)))
  /\ UNCHANGED <<nodeVars, orderVars, poolVars, collabVars, chainVars, cacheVars, trackerVars,
                 liveVars, lockVars, countVars, arg, pre>>

\* the versioned hashes the blob pool holds a blob and proof for
PoolBlobs == {1, 2}
\* TxPool.GetBlobs: one entry per hash, Nil where the pool has no blob
PoolGetBlobs(hashes) ==
  [i \in 1..Len(hashes) |-> IF hashes[i] \in PoolBlobs THEN hashes[i] ELSE Nil]

\* variant: the pool is asked before the size of the request is checked
GetBlobsV1Call_PoolFirst(t, hashes) ==
  /\ pc[t] = "idle"
  /\ getBlobsCalls < MaxGetBlobs
  /\ arg' = [arg EXCEPT ![t] = [kind |-> "getBlobs", hashes |-> hashes]]
  /\ pre' = [pre EXCEPT ![t] = Snapshot]
  /\ getBlobsCalls' = getBlobsCalls + 1
  /\ IF Len(hashes) > blobsCountLimit
     THEN Respond(t, QueryError("TooLargeRequest"))
     ELSE Respond(t, QueryOk(PoolGetBlobs(hashes)))
  /\ UNCHANGED <<nodeVars, orderVars, collabVars, chainVars, cacheVars, trackerVars,
                 liveVars, lockVars, countVars>>

\* GetBlobsV1 (lines 666-682)
GetBlobsV1Call(t, hashes) ==
  /\ pc[t] = "idle"
  /\ getBlobsCalls < MaxGetBlobs
  /\ arg' = [arg EXCEPT ![t] = [kind |-> "getBlobs", hashes |-> hashes]]
  /\ pre' = [pre EXCEPT ![t] = Snapshot]
  /\ IF Len(hashes) > blobsCountLimit
     THEN /\ Respond(t, QueryError("TooLargeRequest"))
          /\ UNCHANGED getBlobsCalls
     ELSE /\ getBlobsCalls' = getBlobsCalls + 1
          /\ Respond(t, QueryOk(PoolGetBlobs(hashes)))
  /\ UNCHANGED <<nodeVars, orderVars, collabVars, chainVars, cacheVars, trackerVars,
                 liveVars, lockVars, countVars>>

(* ------------------------------------------------------------------ *)
(* A reference to a hash: the tracker lookup that fork-choice-update   *)
(* and new-payload make, taken on its own                              *)
(* ------------------------------------------------------------------ *)
\* checkInvalidAncestor(check, head) (lines 1196-1243), under invalidLock
\* only: forkchoiceUpdated calls it with (head, head), newPayload with
\* (hash, hash) and delayPayloadImport with (parent hash, hash)
CheckInvalidAncestorCall(t, check, hd) ==
  /\ pc[t] = "idle"
  /\ arg' = [arg EXCEPT ![t] = [kind |-> "check", check |-> check, head |-> hd]]
  /\ pre' = [pre EXCEPT ![t] = Snapshot]
  /\ \E o \in checkInvalidAncestor(check, hd) :
       /\ invalidBlocksHits' = o.hits
       /\ invalidTipsets' = o.tips
       \* the response of a lookup: the rejection, or none
       /\ Respond(t, IF o.rejected
                     THEN [status |-> "INVALID", lvh |-> o.lvh, id |-> NoId,
                           err |-> "", via |-> "tracker"]
                     ELSE [NoRes EXCEPT !.via = "tracker"])
  /\ UNCHANGED <<nodeVars, orderVars, poolVars, collabVars, chainVars, cacheVars,
                 liveVars, lockVars, countVars>>

(* ------------------------------------------------------------------ *)
(* The mutexes of the engine and the order in which each operation     *)
(* locks and unlocks them                                              *)
(* ------------------------------------------------------------------ *)
Locks == {"forkchoiceLock", "newPayloadLock", "invalidLock",
          "lastTransitionLock", "lastForkchoiceLock", "lastNewPayloadLock"}

Lock(l) == [op |-> "Lock", lock |-> l]
Unlock(l) == [op |-> "Unlock", lock |-> l]

\* forkchoiceUpdated: the zero head returns under forkchoiceLock alone
\* (lines 418-424); otherwise the liveness timer is stamped (427-429), an
\* unknown head is looked up in the tracker (437), and the deferred unlock
\* runs at the return
forkchoiceUpdatedLocks ==
  {<<Lock("forkchoiceLock"), Unlock("forkchoiceLock")>>,
   <<Lock("forkchoiceLock"),
     Lock("lastForkchoiceLock"), Unlock("lastForkchoiceLock"),
     Unlock("forkchoiceLock")>>,
   <<Lock("forkchoiceLock"),
     Lock("lastForkchoiceLock"), Unlock("lastForkchoiceLock")>>
     \o <<Lock("invalidLock"), Unlock("invalidLock")>> \o <<Unlock("forkchoiceLock")>>}

\* variant: new-payload asks for forkchoiceLock inside the tracker lock
newPayloadLocks_ForkchoiceInside ==
  {<<Lock("newPayloadLock"),
     Lock("lastNewPayloadLock"), Unlock("lastNewPayloadLock"),
     Lock("invalidLock"), Lock("forkchoiceLock"),
     Unlock("forkchoiceLock"), Unlock("invalidLock"),
     Unlock("newPayloadLock")>>}

\* newPayload: a block that cannot be decoded returns under newPayloadLock
\* alone (lines 985-1020); otherwise the liveness timer is stamped
\* (1023-1025); a known block returns (1030-1033); else the tracker is
\* looked up (1035), and looked up again by delayPayloadImport (1152) or
\* written after a failed import (1069-1072)
newPayloadLocks ==
  {<<Lock("newPayloadLock"), Unlock("newPayloadLock")>>,
   <<Lock("newPayloadLock"),
     Lock("lastNewPayloadLock"), Unlock("lastNewPayloadLock"),
     Unlock("newPayloadLock")>>,
   <<Lock("newPayloadLock"),
     Lock("lastNewPayloadLock"), Unlock("lastNewPayloadLock")>>
     \o <<Lock("invalidLock"), Unlock("invalidLock")>> \o <<Unlock("newPayloadLock")>>,
   <<Lock("newPayloadLock"),
     Lock("lastNewPayloadLock"), Unlock("lastNewPayloadLock")>>
     \o <<Lock("invalidLock"), Unlock("invalidLock")>> \o <<Lock("invalidLock"), Unlock("invalidLock")>>
     \o <<Unlock("newPayloadLock")>>}

\* one round of the heartbeat loop (lines 1286-1296)
heartbeatLocks ==
  <<Lock("lastTransitionLock"), Unlock("lastTransitionLock"),
    Lock("lastForkchoiceLock"), Unlock("lastForkchoiceLock"),
    Lock("lastNewPayloadLock"), Unlock("lastNewPayloadLock")>>

\* goroutine t enters an operation: forkchoiceUpdated, newPayload,
\* executeStatelessPayload (lastNewPayloadLock, lines 1130-1132),
\* ExchangeTransitionConfigurationV1 (lastTransitionLock, lines 598-600) or
\* setInvalidAncestor, called by the downloader (invalidLock, lines
\* 1187-1188)
CallStarts(t) ==
  /\ todo[t] = <<>>
  /\ \E p \in forkchoiceUpdatedLocks \cup newPayloadLocks
              \cup {<<Lock(l), Unlock(l)>> :
                      l \in {"lastNewPayloadLock", "lastTransitionLock",
                              "invalidLock"}} :
       todo' = [todo EXCEPT ![t] = p]
  /\ UNCHANGED <<nodeVars, poolVars, collabVars, chainVars, cacheVars,
                 trackerVars, liveVars, lockVars, callVars, countVars, holder>>

\* the heartbeat goroutine wakes up from its sleep (line 1284)
HeartbeatWakes ==
  /\ todo[HeartbeatProc] = <<>>
  /\ todo' = [todo EXCEPT ![HeartbeatProc] = heartbeatLocks]
  /\ UNCHANGED <<nodeVars, poolVars, collabVars, chainVars, cacheVars,
                 trackerVars, liveVars, lockVars, callVars, countVars, holder>>

\* sync.Mutex.Lock: blocks while the mutex is held
LockStep(t) ==
  /\ todo[t] # <<>>
  /\ Head(todo[t]).op = "Lock"
  /\ holder[Head(todo[t]).lock] = NoProc
  /\ holder' = [holder EXCEPT ![Head(todo[t]).lock] = t]
  /\ todo' = [todo EXCEPT ![t] = Tail(@)]
  /\ UNCHANGED <<nodeVars, poolVars, collabVars, chainVars, cacheVars,
                 trackerVars, liveVars, lockVars, callVars, countVars>>

\* sync.Mutex.Unlock
UnlockStep(t) ==
  /\ todo[t] # <<>>
  /\ Head(todo[t]).op = "Unlock"
  /\ holder' = [holder EXCEPT ![Head(todo[t]).lock] = NoProc]
  /\ todo' = [todo EXCEPT ![t] = Tail(@)]
  /\ UNCHANGED <<nodeVars, poolVars, collabVars, chainVars, cacheVars,
                 trackerVars, liveVars, lockVars, callVars, countVars>>

(* ------------------------------------------------------------------ *)
(* Initial states                                                      *)
(* ------------------------------------------------------------------ *)
\* the chain database the node starts from: canonical chain 1, 2, 3, the
\* side block 8 and the proof-of-work side block 12
InitKnown == {1, 2, 3, 8, 12}

\* a fresh ConsensusAPI (newConsensusAPIWithoutHeartbeat) over that database
InitFresh ==
  /\ invalidBlocksHits = EmptyMap
  /\ invalidTipsets = EmptyMap
  /\ lastNewPayloadUpdate = 0
  /\ clock = 0
  /\ execCount = [b \in Blocks |-> 0]

\* the engine after block 4 failed to import and was then referenced again
\* until its hit count reached hits (fewer than invalidBlockHitEviction)
InitTainted(hits) ==
  /\ invalidBlocksHits = [b \in {4} |-> hits]
  /\ invalidTipsets = [b \in {4} |-> 4]
  /\ lastNewPayloadUpdate = 1
  /\ clock = 1
  /\ execCount = [b \in Blocks |-> IF b = 4 THEN 1 ELSE 0]

\* the engine after blocks 4 and 9 failed to import, the child 5 of block 4
\* was rejected as its descendant, and block 4 was referenced again until
\* its hit count stands one below invalidBlockHitEviction
InitTaintedTwo ==
  /\ invalidBlocksHits = (4 :> invalidBlockHitEviction - 1) @@ (9 :> 1)
  /\ invalidTipsets = (4 :> 4) @@ (5 :> 4) @@ (9 :> 9)
  /\ lastNewPayloadUpdate = 1
  /\ clock = 1
  /\ execCount = [b \in Blocks |-> IF b \in {4, 9} THEN 1 ELSE 0]

\* no call in progress, nothing cached, the chain database as loaded
InitIdle ==
  /\ holder = [l \in Locks |-> NoProc]
  /\ todo = [t \in Threads |-> <<>>]
  /\ known = InitKnown
  /\ head = 3
  /\ safe = ZeroHash
  /\ remoteBlocks = <<>>
  /\ localBlocks = <<>>
  /\ forkchoiceLock = NoProc
  /\ newPayloadLock = NoProc
  /\ pc = [t \in Procs |-> "idle"]
  /\ arg = [t \in Procs |-> NoArg]
  /\ res = [t \in Procs |-> NoRes]
  /\ pre = [t \in Procs |-> NoArg]
  /\ buildCount = EmptyMap
  /\ nbad = 0
  /\ beaconSyncCalls = [b \in Blocks |-> 0]
  /\ beaconExtendCalls = [b \in Blocks |-> 0]
  /\ setCanonicalCalls = [b \in Blocks |-> 0]
  /\ getBlobsCalls = 0

InitEngine ==
  /\ InitIdle
  /\ finalized = ZeroHash
  /\ synced = FALSE
  /\ lastForkchoiceUpdate = 0

\* the node the engine runs on: chain configuration, sync flag, local state
InitNode(c, snap, st) ==
  /\ cfg = c
  /\ snapSync = snap
  /\ pivot = Nil
  /\ stateOf = st

\* a node that left snap sync and whose last pivot is block number pv
InitNodePivot(c, pv, st) ==
  /\ cfg = c
  /\ snapSync = FALSE
  /\ pivot = pv
  /\ stateOf = st

Init ==
  /\ InitEngine
  /\ \/ InitNode(OpConfig, FALSE, InitKnown) /\ InitFresh
     \/ InitNode(L1Config, FALSE, InitKnown) /\ InitFresh
     \/ InitNode(OpConfig, FALSE, InitKnown \ {8}) /\ InitFresh
     \/ InitNode(OpConfig, TRUE, InitKnown) /\ InitFresh
     \/ InitNode(OpConfig, FALSE, InitKnown)
          /\ InitTainted(invalidBlockHitEviction - 2)
     \/ InitNode(OpConfig, FALSE, InitKnown)
          /\ InitTainted(invalidBlockHitEviction - 1)

(* ------------------------------------------------------------------ *)
(* Inputs of the driver                                                *)
(* ------------------------------------------------------------------ *)
\* attributes of a V3 build request at timestamp 3 (Prague, past Holocene)
BaseAttrs ==
  [present |-> TRUE, ts |-> 3, rnd |-> 0, fee |-> 0, wd |-> TRUE, br |-> TRUE,
   gl |-> TRUE, eip |-> "wellformed", noTxPool |-> FALSE, txOk |-> TRUE]
\* attributes of a V2 build request at timestamp 1 (Shanghai, before Holocene)
ShanghaiAttrs ==
  [present |-> TRUE, ts |-> 1, rnd |-> 0, fee |-> 0, wd |-> TRUE, br |-> FALSE,
   gl |-> TRUE, eip |-> "empty", noTxPool |-> FALSE, txOk |-> TRUE]

\* requests of the driver: <<version, attributes, head, safe, finalized>>
FcuInputs ==
  {<<3, NilAttrs, h, 0, 0>> : h \in {0, 2, 3, 4, 5, 8, 12}}
  \cup {<<3, NilAttrs, 3, sf[1], sf[2]>> :
          sf \in {<<2, 0>>, <<2, 2>>, <<8, 2>>, <<5, 2>>, <<2, 8>>}}
  \cup {<<va[1][1], va[1][2], va[2], 0, 2>> :
          va \in {<<3, BaseAttrs>>,
                  <<3, [BaseAttrs EXCEPT !.noTxPool = TRUE]>>,
                  <<3, [BaseAttrs EXCEPT !.gl = FALSE]>>,
                  <<3, [BaseAttrs EXCEPT !.eip = "malformed"]>>,
                  <<3, [BaseAttrs EXCEPT !.eip = "empty"]>>,
                  <<3, [BaseAttrs EXCEPT !.txOk = FALSE]>>,
                  <<2, ShanghaiAttrs>>,
                  <<2, [ShanghaiAttrs EXCEPT !.eip = "wellformed"]>>}
             \X {3}}
  \cup {<<3, BaseAttrs, 8, 0, 2>>}

\* the payload of block b in the form its fork requires
GoodParams(c, b) ==
  LET f == LatestFork(c, Time[b]) IN
  [blk |-> b, ts |-> Time[b],
   wd |-> f # "Paris",
   ebg |-> f \in {"Cancun", "Prague", "Osaka"},
   bgu |-> f \in {"Cancun", "Prague", "Osaka"},
   vh |-> f \in {"Cancun", "Prague", "Osaka"},
   br |-> f \in {"Cancun", "Prague", "Osaka"},
   reqs |-> IF f \in {"Prague", "Osaka"} THEN "ok" ELSE "nil",
   wroot |-> IsIsthmus(c, Time[b]),
   extra |-> IF IsHolocene(c, Time[b]) THEN "wellformed" ELSE "empty",
   wellformed |-> TRUE]
GoodVersion(c, b) ==
  LET f == LatestFork(c, Time[b]) IN
  IF f = "Paris" THEN 1 ELSE IF f = "Shanghai" THEN 2
  ELSE IF f = "Cancun" THEN 3 ELSE 4

NpInputs(c) ==
  {GoodParams(c, b) : b \in {3, 4, 5, 6, 9}}
  \cup {[GoodParams(c, 4) EXCEPT !.wellformed = FALSE],
        [GoodParams(c, 4) EXCEPT !.extra = "malformed"]}

\* bad-block report of the downloader: <<bad header, sync origin>>
BadBlockInputs == {<<4, 5>>}

(* ------------------------------------------------------------------ *)
(* Specification: one driver request at a time                         *)
(* ------------------------------------------------------------------ *)
DriverCallsFcu ==
  \E i \in FcuInputs :
    ForkchoiceUpdatedCall(1, i[1], FALSE, i[3], i[4], i[5], i[2])
DriverCallsNp ==
  \E p \in NpInputs(cfg) :
    NewPayloadCall(1, GoodVersion(cfg, p.blk), FALSE, p)
SyncReportsBadBlock ==
  \E r \in BadBlockInputs : setInvalidAncestor(r[1], r[2])

Next ==
  \/ DriverCallsFcu
  \/ DriverCallsNp
  \/ FcuAcquire(1)
  \/ FcuResolveHead(1)
  \/ FcuSetCanonical(1)
  \/ FcuSetFinalized(1)
  \/ FcuSetSafe(1)
  \/ FcuBuildPayload(1)
  \/ NpAcquire(1)
  \/ NpCheck(1)
  \/ NpInsert(1)
  \/ Return(1)
  \/ SyncReportsBadBlock

Spec == Init /\ [][Next]_vars

(* ------------------------------------------------------------------ *)
(* Specification: one driver request at a time, every version of the   *)
(* two calls, with and without witness, on attributes and payloads of  *)
(* every fork                                                          *)
(* ------------------------------------------------------------------ *)
\* the engine after it has served one call: a fork-choice-update to the tip
\* 3 that finalized block 2, or a new-payload of the stored block 3
InitGate ==
  /\ InitIdle
  /\ \E c \in {OpConfig, L1Config, OsakaConfig} : InitNode(c, FALSE, InitKnown)
  /\ invalidBlocksHits = EmptyMap
  /\ invalidTipsets = EmptyMap
  /\ execCount = [b \in Blocks |-> 0]
  /\ clock = 1
  /\ \/ /\ finalized = 2
        /\ synced = TRUE
        /\ lastForkchoiceUpdate = 1
        /\ lastNewPayloadUpdate = 0
     \/ /\ finalized = ZeroHash
        /\ synced = FALSE
        /\ lastForkchoiceUpdate = 0
        /\ lastNewPayloadUpdate = 1

\* attributes at timestamp ts with or without withdrawals and beacon root,
\* the OP-Stack fields as the chain requires them at ts
GateAttrs(c, ts, w, r) ==
  [present |-> TRUE, ts |-> ts, rnd |-> 0, fee |-> 0, wd |-> w, br |-> r,
   gl |-> TRUE, eip |-> IF IsHolocene(c, ts) THEN "wellformed" ELSE "empty",
   noTxPool |-> FALSE, txOk |-> TRUE]

\* the payload of block b as its fork requires it, and that payload with one
\* field changed
GatePayloads(c, b) ==
  LET g == GoodParams(c, b) IN
  {g, [g EXCEPT !.wd = ~@], [g EXCEPT !.ebg = ~@], [g EXCEPT !.bgu = ~@],
   [g EXCEPT !.vh = ~@], [g EXCEPT !.br = ~@], [g EXCEPT !.wroot = ~@]}
  \cup {[g EXCEPT !.reqs = q] : q \in {"nil", "ok", "bad"}}
  \cup {[g EXCEPT !.extra = e] : e \in {"empty", "wellformed", "malformed"}}

GateCallsFcu ==
  \E ver \in 1..3, wit \in BOOLEAN, ts \in 0..4, w \in BOOLEAN, r \in BOOLEAN :
    ForkchoiceUpdatedCall(1, ver, wit, 3, ZeroHash, 2, GateAttrs(cfg, ts, w, r))
GateCallsNp ==
  \E ver \in 1..4, wit \in BOOLEAN, b \in {1, 9, 4, 5, 6} :
    \E p \in GatePayloads(cfg, b) : NewPayloadCall(1, ver, wit, p)

NextGate ==
  \/ GateCallsFcu
  \/ GateCallsNp
  \/ FcuAcquire(1)
  \/ FcuResolveHead(1)
  \/ FcuSetCanonical(1)
  \/ FcuSetFinalized(1)
  \/ FcuSetSafe(1)
  \/ FcuBuildPayload(1)
  \/ NpAcquire(1)
  \/ NpCheck(1)
  \/ NpInsert(1)
  \/ Return(1)

SpecGate == InitGate /\ [][NextGate]_vars

(* ------------------------------------------------------------------ *)
(* Specification: two request goroutines, the driver re-issuing calls  *)
(* while earlier ones are in flight                                    *)
(* ------------------------------------------------------------------ *)
InitConc ==
  /\ InitEngine
  /\ InitFresh
  /\ InitNode(OpConfig, FALSE, InitKnown)

ConcFcuInputs ==
  {<<3, NilAttrs, h, ZeroHash, f>> : h \in {3, 4}, f \in {ZeroHash, 2}}
  \cup {<<3, BaseAttrs, 3, ZeroHash, 2>>}

ConcCallsFcu(t) ==
  \E i \in ConcFcuInputs :
    ForkchoiceUpdatedCall(t, i[1], FALSE, i[3], i[4], i[5], i[2])
ConcCallsNp(t) ==
  \E b \in {3, 4} :
    NewPayloadCall(t, GoodVersion(cfg, b), FALSE, GoodParams(cfg, b))

NextConc ==
  \E t \in Procs :
    \/ ConcCallsFcu(t)
    \/ ConcCallsNp(t)
    \/ FcuAcquire(t)
    \/ FcuResolveHead(t)
    \/ FcuSetCanonical(t)
    \/ FcuSetFinalized(t)
    \/ FcuSetSafe(t)
    \/ FcuBuildPayload(t)
    \/ NpAcquire(t)
    \/ NpCheck(t)
    \/ NpInsert(t)
    \/ Return(t)

SpecConc == InitConc /\ [][NextConc]_vars

(* ------------------------------------------------------------------ *)
(* Specification: a driver that only delivers payloads, on nodes in    *)
(* and out of full sync                                                *)
(* ------------------------------------------------------------------ *)
\* full sync with every state, full sync without the state of side block
\* 8, snap sync, head below the last pivot, head state missing, and full
\* sync with two bad ancestors in the tracker
InitImport ==
  /\ InitEngine
  /\ \/ InitNode(OpConfig, FALSE, InitKnown) /\ InitFresh
     \/ InitNode(OpConfig, FALSE, InitKnown \ {8}) /\ InitFresh
     \/ InitNode(OpConfig, TRUE, InitKnown) /\ InitFresh
     \/ InitNodePivot(OpConfig, Number[3] + 1, InitKnown) /\ InitFresh
     \/ InitNode(OpConfig, FALSE, InitKnown \ {3}) /\ InitFresh
     \/ InitNode(OpConfig, FALSE, InitKnown) /\ InitTaintedTwo

ImportInputs(c) ==
  {GoodParams(c, b) : b \in {3, 4, 5, 7, 9, 10, 11}}
  \cup {[GoodParams(c, 4) EXCEPT !.wellformed = FALSE],
        [GoodParams(c, 4) EXCEPT !.extra = "malformed"]}

ImportCallsNp ==
  \E p \in ImportInputs(cfg) :
    NewPayloadCall(1, GoodVersion(cfg, p.blk), FALSE, p)

NextImport ==
  \/ ImportCallsNp
  \/ NpAcquire(1)
  \/ NpCheck(1)
  \/ NpInsert(1)
  \/ Return(1)
  \/ SyncReportsBadBlock

SpecImport == InitImport /\ [][NextImport]_vars

(* ------------------------------------------------------------------ *)
(* Specification: a driver that builds payloads of the three versions  *)
(* and looks them up, next to a goroutine that asks for blobs          *)
(* ------------------------------------------------------------------ *)
\* starts as InitConc does

\* build requests of versions 1, 2 and 3 on the tip:
\* <<version, attributes, head>>
QueryFcuInputs ==
  {<<1, GateAttrs(OpConfig, 0, FALSE, FALSE), 3>>,
   <<2, ShanghaiAttrs, 3>>,
   <<3, BaseAttrs, 3>>}

\* payload IDs the driver asks for: the three it can have built and one
\* that was never built
QueryIds ==
  {PayloadId(i[3], i[2], i[1]) : i \in QueryFcuInputs}
  \cup {PayloadId(8, BaseAttrs, 3)}

\* n versioned hashes of which every third is not in the pool
BlobHashes(n) == [i \in 1..n |-> (i % 3) + 1]
BlobRequestSizes == {0, 3, blobsCountLimit, blobsCountLimit + 1, 200}

QueryCallsFcu ==
  \E i \in QueryFcuInputs :
    ForkchoiceUpdatedCall(1, i[1], FALSE, i[3], ZeroHash, ZeroHash, i[2])
CallsGetPayload ==
  \E ver \in 1..4, id \in QueryIds : GetPayloadCall(1, ver, id)
CallsGetBlobs ==
  \E n \in BlobRequestSizes : GetBlobsV1Call(2, BlobHashes(n))

NextQuery ==
  \/ QueryCallsFcu
  \/ FcuAcquire(1)
  \/ FcuResolveHead(1)
  \/ FcuSetCanonical(1)
  \/ FcuSetFinalized(1)
  \/ FcuSetSafe(1)
  \/ FcuBuildPayload(1)
  \/ CallsGetPayload
  \/ CallsGetBlobs
  \/ \E t \in Procs : Return(t)

SpecQuery == InitConc /\ [][NextQuery]_vars

(* ------------------------------------------------------------------ *)
(* Specification: a goroutine that executes payloads statelessly and   *)
(* reads ranges of bodies next to a driver that delivers a payload,    *)
(* moves the head and reads ranges of bodies itself                    *)
(* ------------------------------------------------------------------ *)
\* the heads the driver moves to: the side chain and the delivered block
ReadersFcuHeads == {4, 8}

\* <<version, payload, witness decodes>>
StatelessInputs(c) ==
  {<<GoodVersion(c, 4), GoodParams(c, 4), w>> : w \in BOOLEAN}
  \cup {<<GoodVersion(c, 4), [GoodParams(c, 4) EXCEPT !.wellformed = FALSE], TRUE>>,
        <<1, GoodParams(c, 4), TRUE>>}

\* <<start, count>> of the range requests: refused ones, ranges inside,
\* across and beyond the chain, and two whose end wraps around
RangeInputs ==
  {<<0, 1>>, <<1, 0>>, <<1, 1>>, <<1, 2>>, <<2, 2>>, <<3, 1>>,
   <<1, bodiesCountLimit>>, <<1, bodiesCountLimit + 1>>, <<1, 2000>>,
   <<Uint64Mod - 1, 2>>, <<Uint64Mod - 1, bodiesCountLimit>>}
\* the range requests the driver makes next to the reader's
DriverRangeInputs == {<<1, 2>>, <<1, 2000>>}

ReadersCallFcu ==
  \E h \in ReadersFcuHeads :
    ForkchoiceUpdatedCall(1, 3, FALSE, h, ZeroHash, ZeroHash, NilAttrs)
ReadersCallNp ==
  NewPayloadCall(1, GoodVersion(cfg, 4), FALSE, GoodParams(cfg, 4))
CallsExecuteStateless ==
  \E i \in StatelessInputs(cfg) : ExecuteStatelessPayloadCall(2, i[1], i[2], i[3])
CallsGetBodies(t) ==
  \E i \in IF t = 1 THEN DriverRangeInputs ELSE RangeInputs :
    GetPayloadBodiesByRangeCall(t, i[1], i[2])

NextReaders ==
  \/ ReadersCallFcu
  \/ FcuAcquire(1)
  \/ FcuResolveHead(1)
  \/ FcuSetCanonical(1)
  \/ FcuSetFinalized(1)
  \/ FcuSetSafe(1)
  \/ ReadersCallNp
  \/ NpAcquire(1)
  \/ NpCheck(1)
  \/ NpInsert(1)
  \/ CallsExecuteStateless
  \/ \E t \in Procs :
       \/ CallsGetBodies(t)
       \/ GetBodies(t)
       \/ Return(t)

SpecReaders == InitConc /\ [][NextReaders]_vars

(* ------------------------------------------------------------------ *)
(* Specification: the invalid-ancestor tracker under payloads that     *)
(* fail to import, bad-block reports of the downloader and any number  *)
(* of references                                                       *)
(* ------------------------------------------------------------------ *)
\* starts as InitConc does

\* <<check, head>> of the references: a hash itself, as fork-choice-update
\* and new-payload pass it, and a parent with its child, as the delayed
\* import passes them
ReferenceInputs == {<<4, 4>>, <<4, 5>>, <<5, 6>>}

NextTracker ==
  \/ NewPayloadCall(1, GoodVersion(cfg, 4), FALSE, GoodParams(cfg, 4))
  \/ NpAcquire(1)
  \/ NpCheck(1)
  \/ NpInsert(1)
  \/ SyncReportsBadBlock
  \/ \E r \in ReferenceInputs : CheckInvalidAncestorCall(1, r[1], r[2])
  \/ \E t \in Procs : Return(t)

SpecTracker == InitConc /\ [][NextTracker]_vars

(* ------------------------------------------------------------------ *)
(* Specification: the tracker filled up to its capacity                *)
(* ------------------------------------------------------------------ *)
\* the engine after invalidTipsetsCap - 1 blocks outside the tree and then
\* block 4 failed to import, block 4 having been referenced by its own
\* hash since until a few references are left before its eviction
InitCapacity ==
  /\ InitEngine
  /\ InitNode(OpConfig, FALSE, InitKnown)
  /\ invalidTipsets =
       [h \in {4} \cup (FailedElsewhere \ {Cardinality(Blocks) + invalidTipsetsCap})
          |-> h]
  /\ invalidBlocksHits =
       [h \in {4} \cup (FailedElsewhere \ {Cardinality(Blocks) + invalidTipsetsCap})
          |-> IF h = 4 THEN invalidBlockHitEviction - 4 ELSE 1]
  /\ lastNewPayloadUpdate = 1
  /\ clock = 1
  /\ execCount = [b \in Blocks |-> IF b = 4 THEN 1 ELSE 0]

NextCapacity ==
  \/ \E r \in ReferenceInputs : CheckInvalidAncestorCall(1, r[1], r[2])
  \/ SyncReportsBadBlock
  \/ \E t \in Procs : Return(t)

SpecCapacity == InitCapacity /\ [][NextCapacity]_vars

(* ------------------------------------------------------------------ *)
(* Specification: fork-choice-updates to the tip, to a canonical        *)
(* ancestor of the tip and to a side block, on an optimism chain and on *)
(* a chain without optimism                                             *)
(* ------------------------------------------------------------------ *)
InitStale ==
  /\ InitEngine
  /\ InitFresh
  /\ \/ InitNode(OpConfig, FALSE, InitKnown)
     \/ InitNode(L1Config, FALSE, InitKnown)

\* <<version, attributes, head, safe, finalized>>: block 2 is the parent of
\* the tip 3, block 8 is on a side branch
StaleFcuInputs ==
  {<<3, BaseAttrs, 2, 0, 0>>,
   <<3, BaseAttrs, 2, 1, 1>>,
   <<3, [BaseAttrs EXCEPT !.gl = FALSE], 2, 1, 1>>,
   <<3, NilAttrs, 2, 2, 1>>,
   <<3, NilAttrs, 2, 3, 1>>,
   <<3, NilAttrs, 3, 2, 2>>,
   <<3, BaseAttrs, 3, 0, 0>>,
   <<3, NilAttrs, 8, 0, 0>>,
   <<3, NilAttrs, 8, 8, 1>>,
   <<3, NilAttrs, 8, 0, 2>>}

NextStale ==
  \/ \E i \in StaleFcuInputs :
       ForkchoiceUpdatedCall(1, i[1], FALSE, i[3], i[4], i[5], i[2])
  \/ FcuAcquire(1)
  \/ FcuResolveHead(1)
  \/ FcuSetCanonical(1)
  \/ FcuSetFinalized(1)
  \/ FcuSetSafe(1)
  \/ FcuBuildPayload(1)
  \/ Return(1)

SpecStale == InitStale /\ [][NextStale]_vars

(* ------------------------------------------------------------------ *)
(* Specification: two request goroutines, each running any operation,  *)
(* and the heartbeat goroutine, at the level of their mutexes, under   *)
(* the fairness of the Go scheduler and of sync.Mutex, which hands a   *)
(* mutex to a goroutine that keeps waiting                             *)
(* ------------------------------------------------------------------ *)
\* starts as InitConc does

NextLocks ==
  \/ \E t \in Procs : CallStarts(t)
  \/ HeartbeatWakes
  \/ \E t \in Threads : LockStep(t)
  \/ \E t \in Threads : UnlockStep(t)

SpecLocksFair ==
  /\ InitConc
  /\ [][NextLocks]_vars
  /\ \A t \in Threads : SF_vars(LockStep(t)) /\ WF_vars(UnlockStep(t))

TypeOK ==
  /\ known \subseteq Blocks
  /\ head \in known
  /\ safe \in Hashes
  /\ finalized \in Hashes
  /\ forkchoiceLock \in Procs \cup {NoProc}
  /\ newPayloadLock \in Procs \cup {NoProc}
  /\ holder \in [Locks -> Threads \cup {NoProc}]
  /\ DOMAIN todo = Threads
  /\ DOMAIN invalidTipsets \subseteq Blocks \cup FailedElsewhere
  /\ DOMAIN invalidBlocksHits \subseteq Blocks \cup FailedElsewhere
  /\ Len(localBlocks) <= MaxTrackedPayloads
  /\ Len(remoteBlocks) <= MaxTrackedHeaders

(* ------------------------------------------------------------------ *)
(* Properties                                                          *)
(* ------------------------------------------------------------------ *)
\* goroutine t takes a step of its call
Steps(t) == pc'[t] # pc[t]
\* Go's zero value for a missing map key
HitCount(hits, k) == IF k \in DOMAIN hits THEN hits[k] ELSE 0
\* a reference to a tip of the bad ancestor bad stays below the threshold
BelowEviction(bad) == HitCount(invalidBlocksHits, bad) + 1 < invalidBlockHitEviction
\* the latest valid hash a rejection for bad ancestor bad has to carry
RejectionLatestValid(bad) ==
  IF ParentHash[bad] \in known /\ Difficulty[ParentHash[bad]] > 0
  THEN ZeroHash ELSE ParentHash[bad]
IsTrackerRejection(r, bad) ==
  r.status = "INVALID" /\ r.lvh = RejectionLatestValid(bad) /\ r.id = NoId /\ r.err = ""

\* the hash a call refers to
Referenced(a) == IF a.kind = "fcu" THEN a.head ELSE a.p.blk

\* C5 as stated: while a recorded tip B stays below the eviction threshold,
\* every new-payload or fork-choice-update that refers to B or to any
\* descendant of B (and is not already known locally) is answered INVALID
\* with the latest valid hash of B's bad ancestor.
C5_EveryDescendantRejected ==
  \A t \in Procs :
    (/\ pc[t] = "ret"
     /\ arg[t].kind \in {"fcu", "np"}
     /\ res[t].via \notin {"gate", "extradata", "decode", "zero"}
     /\ Referenced(arg[t]) \notin pre[t].known
     /\ \E B \in DOMAIN pre[t].invalidTipsets :
          /\ Descends(Referenced(arg[t]), B)
          /\ HitCount(pre[t].invalidBlocksHits, pre[t].invalidTipsets[B]) + 2
               < invalidBlockHitEviction)
    => res[t].status = "INVALID"

\* C5 amended: a fork-choice-update whose unknown head is a recorded tip, a
\* new-payload whose unknown block is a recorded tip, and a new-payload that
\* is deferred (parent unknown, or node not in full sync) and whose parent is
\* a recorded tip, are answered INVALID with latest-valid = the bad
\* ancestor's parent hash (zero hash when that parent is a known
\* proof-of-work block) as long as the hit count stays below the threshold;
\* the reference that reaches the threshold is not rejected and removes the
\* bad ancestor from both tracker maps.
C5_TrackedTipRejected ==
  [][\A t \in Procs :
       LET a == arg[t]
           x == Referenced(a)
           viaOwn == /\ \/ pc[t] = "fcu_head" /\ x # ZeroHash
                        \/ pc[t] = "np_check" /\ a.p.wellformed
                     /\ x \notin known
                     /\ x \in DOMAIN invalidTipsets
           viaParent == /\ pc[t] = "np_check" /\ a.p.wellformed
                        /\ x \notin known
                        /\ x \notin DOMAIN invalidTipsets
                        /\ ParentHash[x] \in DOMAIN invalidTipsets
                        /\ \/ ParentHash[x] \notin known
                           \/ Time[x] > Time[ParentHash[x]] /\ SyncMode # "full"
           bad == IF viaOwn THEN invalidTipsets[x] ELSE invalidTipsets[ParentHash[x]]
       IN (Steps(t) /\ (viaOwn \/ viaParent)) =>
            IF BelowEviction(bad)
            THEN /\ pc'[t] = "ret"
                 /\ IsTrackerRejection(res'[t], bad)
                 /\ HitCount(invalidBlocksHits', bad) = HitCount(invalidBlocksHits, bad) + 1
            ELSE /\ ~(pc'[t] = "ret" /\ res'[t].status = "INVALID")
                 /\ bad \notin DOMAIN invalidBlocksHits'
                 /\ \A d \in DOMAIN invalidTipsets' : invalidTipsets'[d] # bad
    ]_vars

\* witness of C5: a new-payload was rejected because its parent is a recorded
\* tip
C5_Witness ==
  \E t \in Procs :
    /\ pc[t] = "ret" /\ arg[t].kind = "np"
    /\ res[t].via = "tracker-parent"
    /\ res[t].status = "INVALID"

\* C6 as stated: a fork-choice-update rejected with the invalid
\* forkchoice-state error leaves the stored safe and finalized pointers as
\* they were before the call.
C6_NeitherPointerUpdated ==
  \A t \in Procs :
    (/\ pc[t] = "ret"
     /\ arg[t].kind = "fcu"
     /\ res[t].err = "InvalidForkChoiceState")
    => /\ safe = pre[t].safe
       /\ finalized = pre[t].finalized

\* the OP-Stack attribute rules a build request violates: gas limit missing,
\* override bytes present before Holocene, override bytes not well-formed
\* from Holocene on
ViolatesOpAttributeRules(c, a) ==
  /\ a.present
  /\ IsOptimism(c)
  /\ \/ ~a.gl
     \/ ~IsHolocene(c, a.ts) /\ a.eip # "empty"
     \/ IsHolocene(c, a.ts) /\ a.eip # "wellformed"

\* C8 as stated: a fork-choice-update rejected as invalid attributes because
\* its attributes violate the OP-Stack rules leaves the canonical head, the
\* safe pointer and the finalized pointer as they were before the call and
\* caches no payload.
C8_NoStateMutation ==
  \A t \in Procs :
    (/\ pc[t] = "ret"
     /\ arg[t].kind = "fcu"
     /\ ViolatesOpAttributeRules(cfg, arg[t].attrs)
     /\ res[t].status = "INVALID"
     /\ res[t].err = "InvalidPayloadAttributes")
    => /\ head = pre[t].head
       /\ safe = pre[t].safe
       /\ finalized = pre[t].finalized
       /\ localBlocks = pre[t].localBlocks

\* C8 amended: a fork-choice-update whose attributes violate the OP-Stack
\* rules and whose fork-choice state was accepted is rejected at the payload
\* step as INVALID with the invalid-attributes error and no payload ID; the
\* builder is not started and no payload is cached, while the head, safe and
\* finalized values the call has set stay in place.
C8_RejectedAtPayloadStep ==
  [][\A t \in Procs :
       (/\ pc[t] = "fcu_build"
        /\ Steps(t)
        /\ ViolatesOpAttributeRules(cfg, arg[t].attrs))
       => /\ pc'[t] = "ret"
          /\ res'[t].status = "INVALID"
          /\ res'[t].err = "InvalidPayloadAttributes"
          /\ res'[t].id = NoId
          /\ localBlocks' = localBlocks
          /\ buildCount' = buildCount
          /\ <<head, safe, finalized>>' = <<head, safe, finalized>>
          /\ (arg[t].fin # ZeroHash => finalized' = arg[t].fin)
          /\ (arg[t].safe # ZeroHash => safe' = arg[t].safe)
    ]_vars

\* witness of C8: such a call was rejected after it had moved the finalized
\* pointer
C8_Witness ==
  \E t \in Procs :
    /\ pc[t] = "ret" /\ arg[t].kind = "fcu"
    /\ ViolatesOpAttributeRules(cfg, arg[t].attrs)
    /\ res[t].err = "InvalidPayloadAttributes"
    /\ res[t].status = "INVALID"
    /\ finalized # pre[t].finalized
    /\ localBlocks = pre[t].localBlocks

\* a build for payload ID id is cached
BuildCached(q, id) == \E i \in 1..Len(q) : q[i].key = id

\* C10 as stated: over any sequence of fork-choice-updates the payload
\* builder is started at most once per payload ID.
C10_BuilderAtMostOncePerId ==
  \A id \in DOMAIN buildCount : buildCount[id] <= 1

\* C10 amended: a fork-choice-update that reaches the payload step with
\* attributes passing the attribute and transaction checks while a build
\* with the same {parent, timestamp, random, feeRecipient,
\* withdrawals-presence, beaconRoot-presence, version} is cached returns
\* VALID with that ID and neither starts the builder nor changes the cache;
\* the builder is only ever started for an ID that has no cached build (a
\* failed build caches nothing, so a repeat of it starts the builder again).
C10_CachedBuildReused ==
  [][/\ \A t \in Procs :
          LET a == arg[t]
              id == PayloadId(a.head, a.attrs, a.ver)
          IN (/\ pc[t] = "fcu_build"
              /\ Steps(t)
              /\ ~ViolatesOpAttributeRules(cfg, a.attrs)
              /\ a.attrs.txOk
              /\ BuildCached(localBlocks, id))
             => /\ pc'[t] = "ret"
                /\ res'[t].status = "VALID"
                /\ res'[t].id = id
                /\ res'[t].err = ""
                /\ buildCount' = buildCount
                /\ localBlocks' = localBlocks
     /\ \A id \in DOMAIN buildCount' :
          HitCount(buildCount', id) > HitCount(buildCount, id)
            => ~BuildCached(localBlocks, id)
    ]_vars

\* witness of C10: a second request got the ID of a cached build although
\* it differs from the first in a field outside the ID (noTxPool)
C10_Witness ==
  \E t \in Procs :
    /\ pc[t] = "ret" /\ arg[t].kind = "fcu"
    /\ res[t].status = "VALID"
    /\ res[t].id = PayloadId(arg[t].head, arg[t].attrs, arg[t].ver)
    /\ BuildCached(pre[t].localBlocks, res[t].id)
    /\ buildCount = pre[t].buildCount
    /\ \E i \in 1..Len(localBlocks) :
         /\ localBlocks[i].key = res[t].id
         /\ localBlocks[i].val.noTxPool # arg[t].attrs.noTxPool

\* the fork in force at timestamp ts: the latest fork scheduled at or before
\* ts
ScheduledBy(forkTime, ts) == forkTime # Nil /\ forkTime <= ts
ForkAt(c, ts) ==
  IF ScheduledBy(c.osaka, ts) THEN "Osaka"
  ELSE IF ScheduledBy(c.prague, ts) THEN "Prague"
  ELSE IF ScheduledBy(c.cancun, ts) THEN "Cancun"
  ELSE IF ScheduledBy(c.shanghai, ts) THEN "Shanghai"
  ELSE "Paris"

\* the rules of ForkchoiceUpdatedV1/V2/V3 that non-nil attributes a violate
ViolatesFcuVersionRules(c, ver, a) ==
  /\ a.present
  /\ \/ /\ ver = 1
        /\ \/ a.wd
           \/ a.br
           \/ ScheduledBy(c.shanghai, a.ts)
     \/ /\ ver = 2
        /\ \/ a.br
           \/ ForkAt(c, a.ts) = "Paris" /\ a.wd
           \/ ForkAt(c, a.ts) = "Shanghai" /\ ~a.wd
           \/ ForkAt(c, a.ts) \in {"Cancun", "Prague", "Osaka"}
     \/ /\ ver = 3
        /\ \/ ~a.wd
           \/ ~a.br
           \/ ForkAt(c, a.ts) \notin {"Cancun", "Prague"}

\* C7: a fork-choice-update (V1, V2, V3, with or without witness) whose
\* non-nil attributes violate the rules of its version returns INVALID with
\* an error at the call itself: it never takes the forkchoice lock, and the
\* canonical head, safe, finalized, the local-payload cache, the tracker and
\* the forkchoice liveness timestamp are unchanged.
C7_FcuGatedBeforeMutation ==
  [][\A t \in Procs :
       (/\ pc[t] = "idle"
        /\ Steps(t)
        /\ arg'[t].kind = "fcu"
        /\ ViolatesFcuVersionRules(cfg, arg'[t].ver, arg'[t].attrs))
       => /\ pc'[t] = "ret"
          /\ res'[t].status = "INVALID"
          /\ res'[t].err \in {"InvalidParams", "InvalidPayloadAttributes",
                              "UnsupportedFork"}
          /\ res'[t].id = NoId
          /\ forkchoiceLock' = forkchoiceLock
          /\ <<head, safe, finalized, localBlocks, invalidBlocksHits,
               invalidTipsets, lastForkchoiceUpdate>>'
               = <<head, safe, finalized, localBlocks, invalidBlocksHits,
                   invalidTipsets, lastForkchoiceUpdate>>
    ]_vars

\* witness of C7: a witness-variant V3 call was rejected for attributes of a
\* fork after Prague, after an earlier call had been stamped
C7_Witness ==
  \E t \in Procs :
    /\ pc[t] = "ret" /\ arg[t].kind = "fcu"
    /\ arg[t].ver = 3 /\ arg[t].wit
    /\ arg[t].attrs.wd /\ arg[t].attrs.br
    /\ ViolatesFcuVersionRules(cfg, arg[t].ver, arg[t].attrs)
    /\ res[t].err = "UnsupportedFork"
    /\ lastForkchoiceUpdate > 0
    /\ lastForkchoiceUpdate = pre[t].lastForkchoiceUpdate

\* the rules of NewPayloadV1..V4 that the payload p violates
ViolatesNpVersionRules(c, ver, p) ==
  \/ /\ ver = 1
     /\ p.wd
  \/ /\ ver = 2
     /\ \/ ForkAt(c, p.ts) \in {"Cancun", "Prague", "Osaka"}
        \/ ForkAt(c, p.ts) = "Shanghai" /\ ~p.wd
        \/ ForkAt(c, p.ts) = "Paris" /\ p.wd
        \/ p.ebg
        \/ p.bgu
  \/ /\ ver = 3
     /\ \/ ~p.wd \/ ~p.ebg \/ ~p.bgu \/ ~p.vh \/ ~p.br
        \/ ForkAt(c, p.ts) # "Cancun"
  \/ /\ ver = 4
     /\ \/ ~p.wd \/ ~p.ebg \/ ~p.bgu \/ ~p.vh \/ ~p.br
        \/ p.reqs # "ok"
        \/ ForkAt(c, p.ts) # "Prague"

\* the OP-Stack extra-data rule that the payload p violates
ViolatesExtraDataRule(c, p) ==
  \/ ScheduledBy(c.holocene, p.ts) /\ p.extra # "wellformed"
  \/ ~ScheduledBy(c.holocene, p.ts) /\ c.optimism /\ p.extra # "empty"

\* C9: a new-payload (V1..V4, with or without witness) whose fields violate
\* the rules of its version for the fork at the payload timestamp, or whose
\* extra-data violates the OP-Stack rule, returns INVALID at the call
\* itself: the new-payload lock is not taken, and the remote-header cache,
\* the tracker, chain storage and the new-payload liveness timestamp are
\* unchanged.
C9_NpGatedBeforeProcessing ==
  [][\A t \in Procs :
       (/\ pc[t] = "idle"
        /\ Steps(t)
        /\ arg'[t].kind = "np"
        /\ \/ ViolatesNpVersionRules(cfg, arg'[t].ver, arg'[t].p)
           \/ ViolatesExtraDataRule(cfg, arg'[t].p))
       => /\ pc'[t] = "ret"
          /\ res'[t].status = "INVALID"
          /\ newPayloadLock' = newPayloadLock
          /\ execCount' = execCount
          /\ <<remoteBlocks, invalidBlocksHits, invalidTipsets, known, stateOf,
               head, lastNewPayloadUpdate>>'
               = <<remoteBlocks, invalidBlocksHits, invalidTipsets, known,
                   stateOf, head, lastNewPayloadUpdate>>
    ]_vars

\* witness of C9: a payload that satisfies its version was rejected for
\* non-empty extra-data before Holocene, after an earlier payload had been
\* stamped
C9_Witness ==
  \E t \in Procs :
    /\ pc[t] = "ret" /\ arg[t].kind = "np"
    /\ ~ViolatesNpVersionRules(cfg, arg[t].ver, arg[t].p)
    /\ ViolatesExtraDataRule(cfg, arg[t].p)
    /\ ~ScheduledBy(cfg.holocene, arg[t].p.ts)
    /\ res[t].status = "INVALID"
    /\ lastNewPayloadUpdate > 0
    /\ lastNewPayloadUpdate = pre[t].lastNewPayloadUpdate
    /\ newPayloadLock = NoProc

\* positions inside the section guarded by each lock
FcuSection == {"fcu_head", "fcu_canon", "fcu_final", "fcu_safe", "fcu_build"}
NpSection == {"np_check", "np_exec"}

\* C1: while a new-payload call is inside block execution, every other
\* new-payload call (a retry of the same payload included) is outside the
\* locked section, waiting for the lock; a block that is stored locally is
\* never executed again, so a successful first execution is the only one;
\* and a call for a stored block returns VALID with the block's hash without
\* executing it.
C1_RetryWaitsBlockExecutedOnce ==
  [][/\ \A t \in Procs, u \in Procs :
          (t # u /\ pc'[t] = "np_exec") => pc'[u] \notin NpSection
     /\ \A b \in Blocks : b \in known => execCount'[b] = execCount[b]
     /\ \A t \in Procs :
          (/\ pc[t] = "np_check"
           /\ Steps(t)
           /\ arg[t].p.wellformed
           /\ arg[t].p.blk \in known)
          => /\ pc'[t] = "ret"
             /\ res'[t].status = "VALID"
             /\ res'[t].lvh = arg[t].p.blk
             /\ execCount' = execCount
    ]_vars

\* witness of C1: a retry issued while the first call was executing the
\* block (stamped, not yet inserted) has returned VALID for the block, which
\* was executed once
C1_Witness ==
  \E u \in Procs :
    /\ pc[u] = "ret" /\ arg[u].kind = "np"
    /\ res[u].status = "VALID"
    /\ res[u].lvh = arg[u].p.blk
    /\ arg[u].p.blk \notin pre[u].known
    /\ pre[u].execCount[arg[u].p.blk] = 0
    /\ pre[u].lastNewPayloadUpdate = 1
    /\ lastNewPayloadUpdate = 2
    /\ lastForkchoiceUpdate = 0
    /\ execCount[arg[u].p.blk] = 1

\* C2: at most one fork-choice-update is inside the section guarded by the
\* forkchoice lock, it is the holder of the lock, and every change of the
\* canonical head, the safe and finalized pointers and the local-payload
\* cache is a step of that call.
C2_ForkchoiceMutualExclusion ==
  [][/\ \A t \in Procs, u \in Procs :
          (t # u /\ pc'[t] \in FcuSection) => pc'[u] \notin FcuSection
     /\ \A t \in Procs : pc'[t] \in FcuSection => forkchoiceLock' = t
     /\ (<<head, safe, finalized, localBlocks>>'
           # <<head, safe, finalized, localBlocks>>)
        => \E t \in Procs :
             /\ forkchoiceLock = t
             /\ pc[t] \in FcuSection
             /\ Steps(t)
    ]_vars

\* witness of C2: one fork-choice-update is at the payload step while a
\* second one waits for the lock
C2_Witness ==
  \E t \in Procs, u \in Procs :
    /\ t # u
    /\ pc[t] = "fcu_build"
    /\ forkchoiceLock = t
    /\ pc[u] = "fcu_lock"

\* C3: at most one new-payload is inside the section guarded by the
\* new-payload lock, it is the holder of the lock, and every execution of a
\* block and every change of the stored blocks and of the remote-header
\* cache is a step of that call.
C3_NewPayloadMutualExclusion ==
  [][/\ \A t \in Procs, u \in Procs :
          (t # u /\ pc'[t] \in NpSection) => pc'[u] \notin NpSection
     /\ \A t \in Procs : pc'[t] \in NpSection => newPayloadLock' = t
     /\ (<<known, remoteBlocks, execCount>>' # <<known, remoteBlocks, execCount>>)
        => \E t \in Procs :
             /\ newPayloadLock = t
             /\ pc[t] \in NpSection
             /\ Steps(t)
    ]_vars

\* witness of C3: one new-payload is executing block 4 while a new-payload
\* for another block waits for the lock
C3_Witness ==
  \E t \in Procs, u \in Procs :
    /\ t # u
    /\ pc[t] = "np_exec"
    /\ newPayloadLock = t
    /\ pc[u] = "np_lock"
    /\ arg[u].p.blk # arg[t].p.blk

\* C4: a fork-choice-update that cannot take the forkchoice lock is waiting
\* for another fork-choice-update, never for a new-payload, and a
\* new-payload that cannot take the new-payload lock is waiting for another
\* new-payload, never for a fork-choice-update.
C4_LocksIndependent ==
  \A t \in Procs :
    /\ (pc[t] = "fcu_lock" /\ ~ENABLED FcuAcquire(t))
         => \E u \in Procs \ {t} : pc[u] \in FcuSection
    /\ (pc[t] = "np_lock" /\ ~ENABLED NpAcquire(t))
         => \E u \in Procs \ {t} : pc[u] \in NpSection

\* witness of C4: a fork-choice-update and a new-payload are inside their
\* sections at the same time
C4_Witness ==
  \E t \in Procs, u \in Procs :
    /\ pc[t] = "fcu_canon"
    /\ forkchoiceLock = t
    /\ pc[u] = "np_exec"
    /\ newPayloadLock = u

\* a header with hash h is in the remote-header cache q
HeaderCached(q, h) == \E i \in 1..Len(q) : q[i].key = h

\* C11: a new-payload that returns VALID reports the block's own hash and
\* leaves the block stored, and a new-payload for a stored block returns
\* VALID with the block's hash without executing it, without touching the
\* tracker and without touching the remote-header cache: a repeat of a
\* call that returned VALID returns VALID again on the already-known path.
C11_NewPayloadIdempotent ==
  [][\A t \in Procs :
       /\ (/\ pc'[t] = "ret"
           /\ arg'[t].kind = "np"
           /\ res'[t].status = "VALID")
          => /\ res'[t].lvh = arg'[t].p.blk
             /\ arg'[t].p.blk \in known'
       /\ (/\ pc[t] = "np_check"
           /\ Steps(t)
           /\ arg[t].p.wellformed
           /\ arg[t].p.blk \in known)
          => /\ pc'[t] = "ret"
             /\ res'[t].status = "VALID"
             /\ res'[t].lvh = arg[t].p.blk
             /\ execCount' = execCount
             /\ invalidBlocksHits' = invalidBlocksHits
             /\ invalidTipsets' = invalidTipsets
             /\ remoteBlocks' = remoteBlocks
             /\ beaconExtendCalls' = beaconExtendCalls
    ]_vars

\* witness of C11: the repeat of a new-payload that had executed its block
\* returned VALID, the block still executed once
C11_Witness ==
  \E t \in Procs :
    /\ pc[t] = "ret" /\ arg[t].kind = "np"
    /\ res[t].status = "VALID"
    /\ res[t].lvh = arg[t].p.blk
    /\ arg[t].p.blk \in pre[t].known \ InitKnown
    /\ pre[t].execCount[arg[t].p.blk] = 1
    /\ execCount[arg[t].p.blk] = 1
    /\ invalidTipsets = pre[t].invalidTipsets
    /\ remoteBlocks = pre[t].remoteBlocks

\* C12: a new-payload for a block whose timestamp is not past the timestamp
\* of its locally stored parent is answered INVALID and the block is not
\* executed, whatever the other fields, the sync mode and the availability
\* of the parent's state; no block reaches execution without a timestamp
\* past its parent's.
C12_NonAdvancingTimestampInvalid ==
  [][\A t \in Procs :
       /\ pc'[t] = "np_exec"
            => Time[arg'[t].p.blk] > Time[ParentHash[arg'[t].p.blk]]
       /\ (/\ pc'[t] = "ret"
           /\ arg'[t].kind = "np"
           /\ ParentHash[arg'[t].p.blk] \in pre'[t].known
           /\ Time[arg'[t].p.blk] <= Time[ParentHash[arg'[t].p.blk]])
          => /\ res'[t].status = "INVALID"
             /\ execCount' = pre'[t].execCount
             /\ arg'[t].p.blk \notin known'
    ]_vars

\* witness of C12: a well-formed payload with the timestamp of its parent was
\* answered INVALID with the parent as latest valid hash while the parent's
\* state is missing
C12_Witness ==
  \E t \in Procs :
    /\ pc[t] = "ret" /\ arg[t].kind = "np"
    /\ arg[t].p.wellformed
    /\ ParentHash[arg[t].p.blk] \in known \ stateOf
    /\ Time[arg[t].p.blk] = Time[ParentHash[arg[t].p.blk]]
    /\ res[t].status = "INVALID"
    /\ res[t].lvh = ParentHash[arg[t].p.blk]
    /\ execCount = pre[t].execCount

\* C13: a fork-choice-update whose head is not stored locally and not
\* recorded in the tracker returns SYNCING without changing the head, safe
\* or finalized pointer: without error and without a begin-sync call when
\* the head is absent from the remote-header cache, and after exactly one
\* begin-sync call towards that header when the cache holds it.
C13_UnknownHeadSyncing ==
  [][\A t \in Procs :
       (/\ pc[t] = "fcu_head"
        /\ Steps(t)
        /\ arg[t].head # ZeroHash
        /\ arg[t].head \notin known
        /\ arg[t].head \notin DOMAIN invalidTipsets)
       => /\ pc'[t] = "ret"
          /\ res'[t].status = "SYNCING"
          /\ res'[t].id = NoId
          /\ <<head, safe, finalized>>' = <<head, safe, finalized>>
          /\ IF HeaderCached(remoteBlocks, arg[t].head)
             THEN beaconSyncCalls' =
                    [beaconSyncCalls EXCEPT ![arg[t].head] = @ + 1]
             ELSE /\ beaconSyncCalls' = beaconSyncCalls
                  /\ res'[t].err = ""
    ]_vars

\* witness of C13: a fork-choice-update to a head that a new-payload had
\* cached started the first sync towards it
C13_Witness ==
  \E t \in Procs :
    /\ pc[t] = "ret" /\ arg[t].kind = "fcu"
    /\ arg[t].head \notin known
    /\ HeaderCached(pre[t].remoteBlocks, arg[t].head)
    /\ res[t].status = "SYNCING"
    /\ pre[t].beaconSyncCalls[arg[t].head] = 0
    /\ beaconSyncCalls[arg[t].head] = 1
    /\ head = pre[t].head

\* C14: a fork-choice-update whose head is not stored locally and is a
\* recorded tip below the eviction threshold is answered with the tracker's
\* rejection (INVALID, the bad ancestor's latest valid hash, no payload ID,
\* no error); no begin-sync call is made even when the remote-header cache
\* holds the head, the synced flag and the head, safe and finalized
\* pointers are unchanged.
C14_TaintedHeadRejectedFirst ==
  [][\A t \in Procs :
       (/\ pc[t] = "fcu_head"
        /\ Steps(t)
        /\ arg[t].head # ZeroHash
        /\ arg[t].head \notin known
        /\ arg[t].head \in DOMAIN invalidTipsets
        /\ BelowEviction(invalidTipsets[arg[t].head]))
       => /\ pc'[t] = "ret"
          /\ IsTrackerRejection(res'[t], invalidTipsets[arg[t].head])
          /\ beaconSyncCalls' = beaconSyncCalls
          /\ synced' = synced
          /\ <<head, safe, finalized>>' = <<head, safe, finalized>>
    ]_vars

\* witness of C14: the rejected head was in the remote-header cache
C14_Witness ==
  \E t \in Procs :
    /\ pc[t] = "ret" /\ arg[t].kind = "fcu"
    /\ arg[t].head \notin known
    /\ arg[t].head \in DOMAIN pre[t].invalidTipsets
    /\ HeaderCached(remoteBlocks, arg[t].head)
    /\ res[t].status = "INVALID"
    /\ beaconSyncCalls = pre[t].beaconSyncCalls
    /\ ~synced

\* C15 as stated: a fork-choice-update whose head is stored locally and is
\* not the canonical tip asks the chain for set-canonical(head).
C15_SetCanonicalWheneverNotTip ==
  \A t \in Procs :
    (/\ pc[t] = "ret"
     /\ arg[t].kind = "fcu"
     /\ ~ViolatesFcuVersionRules(cfg, arg[t].ver, arg[t].attrs)
     /\ arg[t].head \in pre[t].known
     /\ arg[t].head # pre[t].head)
    => setCanonicalCalls[arg[t].head] = pre[t].setCanonicalCalls[arg[t].head] + 1

\* C15 amended: a fork-choice-update whose head is stored locally and is
\* not on the canonical chain asks the chain for set-canonical(head) once;
\* a failure is returned as INVALID with the hash the chain reports as last
\* valid and leaves head, safe and finalized unchanged; when the head is on
\* the canonical chain (the tip or one of its ancestors) no set-canonical
\* call is made.
C15_SetCanonicalWhenNotCanonical ==
  [][\A t \in Procs :
       (pc[t] = "fcu_canon" /\ Steps(t))
       => IF Descends(head, arg[t].head)
          THEN /\ setCanonicalCalls' = setCanonicalCalls
               /\ head' = head
          ELSE /\ setCanonicalCalls' =
                    [setCanonicalCalls EXCEPT ![arg[t].head] = @ + 1]
               /\ IF pc'[t] = "ret"
                  THEN /\ res'[t].status = "INVALID"
                       /\ res'[t].lvh = head
                       /\ res'[t].err # ""
                       /\ <<head, safe, finalized>>' = <<head, safe, finalized>>
                  ELSE head' = arg[t].head
    ]_vars

\* witness of C15: set-canonical failed for a side block whose state is
\* missing
C15_Witness ==
  \E t \in Procs :
    /\ pc[t] = "ret" /\ arg[t].kind = "fcu"
    /\ arg[t].head \in known
    /\ ~Descends(head, arg[t].head)
    /\ res[t].status = "INVALID"
    /\ res[t].lvh = head
    /\ setCanonicalCalls[arg[t].head] = pre[t].setCanonicalCalls[arg[t].head] + 1
    /\ head = pre[t].head

C17_BuildFailureAfterCommit ==
  [][\A t \in Procs :
       (/\ pc[t] = "fcu_build"
        /\ Steps(t)
        /\ buildCount' # buildCount)
       => /\ pc'[t] = "ret"
          /\ UNCHANGED <<head, safe, finalized>>
          /\ arg[t].safe # ZeroHash => safe = arg[t].safe
          /\ arg[t].fin # ZeroHash => finalized = arg[t].fin
          /\ IF res'[t].err # ""
             THEN /\ res'[t].err = "InvalidPayloadAttributes"
                  /\ res'[t].id = NoId
                  /\ localBlocks' = localBlocks
             ELSE /\ res'[t].id # NoId
                  /\ QueueHas(localBlocks', res'[t].id)
    ]_vars

\* witness of C17: the builder failed after the call had moved the
\* finalized pointer
C17_Witness ==
  \E t \in Procs :
    /\ pc[t] = "ret" /\ arg[t].kind = "fcu"
    /\ res[t].err = "InvalidPayloadAttributes"
    /\ buildCount # pre[t].buildCount
    /\ res[t].id = NoId
    /\ localBlocks = pre[t].localBlocks
    /\ finalized = arg[t].fin
    /\ finalized # pre[t].finalized

\* C18: no step of a new-payload call changes the head, safe or finalized
\* pointer or the local payload cache, whatever the call returns.
C18_NewPayloadNeverPromotes ==
  [][\A t \in Procs :
       (Steps(t) /\ (arg[t].kind = "np" \/ arg'[t].kind = "np"))
       => UNCHANGED <<head, safe, finalized, localBlocks>>
    ]_vars

\* witness of C18: a block at the height of the canonical tip was executed
\* and stored, and the tip has not moved
C18_Witness ==
  \E t \in Procs :
    /\ pc[t] = "ret" /\ arg[t].kind = "np"
    /\ res[t].status = "VALID"
    /\ arg[t].p.blk \in known \ pre[t].known
    /\ head # arg[t].p.blk
    /\ Number[head] = Number[arg[t].p.blk]
    /\ <<head, safe, finalized>> = <<pre[t].head, pre[t].safe, pre[t].finalized>>
    /\ localBlocks = pre[t].localBlocks

\* C19: when executing the block of a new-payload fails, the tracker holds
\* hit count 1 and the block's own header for the block's hash, the response
\* is INVALID with the parent's hash as latest valid hash, or the zero hash
\* when the parent is a proof-of-work block, and the block is not stored.
C19_ExecutionFailureRecorded ==
  [][\A t \in Procs :
       (/\ pc[t] = "np_exec"
        /\ Steps(t)
        /\ res'[t].status # "VALID")
       => LET b == arg[t].p.blk IN
          /\ execCount'[b] = execCount[b] + 1
          /\ b \in DOMAIN invalidBlocksHits' /\ invalidBlocksHits'[b] = 1
          /\ b \in DOMAIN invalidTipsets' /\ invalidTipsets'[b] = b
          /\ res'[t].status = "INVALID"
          /\ res'[t].lvh = IF Difficulty[ParentHash[b]] > 0
                           THEN ZeroHash ELSE ParentHash[b]
          /\ b \notin known'
    ]_vars

\* witness of C19: the failed block is a child of the proof-of-work genesis
C19_Witness ==
  \E t \in Procs :
    /\ pc[t] = "ret" /\ arg[t].kind = "np"
    /\ execCount[arg[t].p.blk] = pre[t].execCount[arg[t].p.blk] + 1
    /\ res[t].status = "INVALID"
    /\ Difficulty[ParentHash[arg[t].p.blk]] > 0
    /\ res[t].lvh = ZeroHash
    /\ arg[t].p.blk \in DOMAIN invalidTipsets
    /\ arg[t].p.blk \notin known

\* C20: a new-payload for a well-formed block that is neither stored nor
\* rejected by the tracker, whose parent is not stored and not a recorded
\* tip, puts the header in the remote-header cache, makes exactly one
\* extend-sync call for it and returns SYNCING whether or not the downloader
\* took the header; the block is not executed.
C20_UnknownParentDelayed ==
  [][\A t \in Procs :
       LET b == arg[t].p.blk IN
       (/\ pc[t] = "np_check"
        /\ Steps(t)
        /\ arg[t].p.wellformed
        /\ b \notin known
        /\ b \notin DOMAIN invalidTipsets
        /\ ParentHash[b] \notin known
        /\ ParentHash[b] \notin DOMAIN invalidTipsets)
       => /\ pc'[t] = "ret"
          /\ res'[t].status = "SYNCING"
          /\ HeaderCached(remoteBlocks', b)
          /\ beaconExtendCalls' = [beaconExtendCalls EXCEPT ![b] = @ + 1]
          /\ execCount' = execCount
          /\ known' = known
    ]_vars

\* witness of C20: the header was not cached before the call
C20_Witness ==
  \E t \in Procs :
    /\ pc[t] = "ret" /\ arg[t].kind = "np"
    /\ ParentHash[arg[t].p.blk] \notin known
    /\ res[t].status = "SYNCING"
    /\ ~HeaderCached(pre[t].remoteBlocks, arg[t].p.blk)
    /\ HeaderCached(remoteBlocks, arg[t].p.blk)
    /\ beaconExtendCalls[arg[t].p.blk] = 1
    /\ execCount = pre[t].execCount

\* the three conditions Ethereum.SyncMode derives full sync from
DerivedFullSync ==
  /\ ~snapSync
  /\ pivot = Nil \/ Number[head] >= pivot
  /\ head \in stateOf

\* C21: while the derived sync mode is not full sync (snap sync active, head
\* below the pivot, or head state missing) no new-payload step executes a
\* block, and a well-formed, unknown, untainted block with a stored parent
\* and an advancing timestamp is deferred like a block with a missing
\* parent: header cached, one extend-sync call, SYNCING.
C21_NoImportOutsideFullSync ==
  [][\A t \in Procs :
       LET b == arg[t].p.blk IN
       /\ (Steps(t) /\ ~DerivedFullSync)
          => /\ execCount' = execCount
             /\ known' = known
             /\ pc'[t] # "np_exec"
       /\ (/\ pc[t] = "np_check"
           /\ Steps(t)
           /\ ~DerivedFullSync
           /\ arg[t].p.wellformed
           /\ b \notin known
           /\ b \notin DOMAIN invalidTipsets
           /\ ParentHash[b] \in known
           /\ ParentHash[b] \notin DOMAIN invalidTipsets
           /\ Time[b] > Time[ParentHash[b]])
          => /\ pc'[t] = "ret"
             /\ res'[t].status = "SYNCING"
             /\ HeaderCached(remoteBlocks', b)
             /\ beaconExtendCalls' = [beaconExtendCalls EXCEPT ![b] = @ + 1]
    ]_vars

\* witness of C21: a good child of a stored block was deferred because the
\* head is below the last pivot, snap sync being off and the head state
\* present
C21_Witness ==
  \E t \in Procs :
    /\ pc[t] = "ret" /\ arg[t].kind = "np"
    /\ ~snapSync /\ head \in stateOf
    /\ pivot # Nil /\ Number[head] < pivot
    /\ arg[t].p.wellformed
    /\ ParentHash[arg[t].p.blk] \in known
    /\ Time[arg[t].p.blk] > Time[ParentHash[arg[t].p.blk]]
    /\ res[t].status = "SYNCING"
    /\ HeaderCached(remoteBlocks, arg[t].p.blk)
    /\ beaconExtendCalls[arg[t].p.blk] = 1
    /\ execCount = pre[t].execCount

\* C22: in full sync, a new-payload for a well-formed, unknown, untainted
\* block with an advancing timestamp whose parent is stored without its
\* state caches the header and returns ACCEPTED without a latest valid
\* hash; the block is not executed, the tracker is unchanged and no
\* extend-sync call is made.
C22_MissingParentStateAccepted ==
  [][\A t \in Procs :
       LET b == arg[t].p.blk IN
       (/\ pc[t] = "np_check"
        /\ Steps(t)
        /\ DerivedFullSync
        /\ arg[t].p.wellformed
        /\ b \notin known
        /\ b \notin DOMAIN invalidTipsets
        /\ ParentHash[b] \in known
        /\ ParentHash[b] \notin stateOf
        /\ Time[b] > Time[ParentHash[b]])
       => /\ pc'[t] = "ret"
          /\ res'[t].status = "ACCEPTED"
          /\ res'[t].lvh = NilHash
          /\ HeaderCached(remoteBlocks', b)
          /\ execCount' = execCount
          /\ known' = known
          /\ UNCHANGED <<invalidBlocksHits, invalidTipsets, beaconExtendCalls>>
    ]_vars

\* witness of C22: the header entered the cache with the ACCEPTED response
C22_Witness ==
  \E t \in Procs :
    /\ pc[t] = "ret" /\ arg[t].kind = "np"
    /\ res[t].status = "ACCEPTED"
    /\ res[t].lvh = NilHash
    /\ ParentHash[arg[t].p.blk] \in known \ stateOf
    /\ ~HeaderCached(pre[t].remoteBlocks, arg[t].p.blk)
    /\ HeaderCached(remoteBlocks, arg[t].p.blk)
    /\ beaconExtendCalls = pre[t].beaconExtendCalls
    /\ execCount = pre[t].execCount

\* C24: a new-payload call that satisfies the version rules ends with a
\* status among VALID, INVALID, SYNCING and ACCEPTED and without an error,
\* whichever step of newPayload produces the response.
C24_StatusNeverRawError ==
  [][\A t \in Procs :
       (/\ Steps(t)
        /\ pc'[t] = "ret"
        /\ arg'[t].kind = "np"
        /\ ~ViolatesNpVersionRules(cfg, arg'[t].ver, arg'[t].p))
       => /\ res'[t].status \in {"VALID", "INVALID", "SYNCING", "ACCEPTED"}
          /\ res'[t].err = ""
    ]_vars

\* witness of C24: a payload that fails to decode was answered INVALID
\* without a latest valid hash and without an error
C24_Witness ==
  \E t \in Procs :
    /\ pc[t] = "ret" /\ arg[t].kind = "np"
    /\ ~ViolatesNpVersionRules(cfg, arg[t].ver, arg[t].p)
    /\ ~arg[t].p.wellformed
    /\ res[t].status = "INVALID"
    /\ res[t].lvh = NilHash
    /\ res[t].err = ""

\* C30: when checkInvalidAncestor looks up a recorded tip whose bad
\* ancestor's hit count reaches the eviction threshold with this lookup, the
\* lookup rejects nothing, afterwards no tipset entry references that bad
\* ancestor and the hit-count map has no entry for it, and the tipset
\* entries of other bad ancestors are unchanged.
C30_EvictionClearsBadAncestor ==
  [][\A t \in Procs :
       LET x == Referenced(arg[t])
           bad == invalidTipsets[x]
       IN
       (/\ Steps(t)
        /\ \/ pc[t] = "fcu_head" /\ x # ZeroHash
           \/ pc[t] = "np_check" /\ arg[t].p.wellformed
        /\ x \notin known
        /\ x \in DOMAIN invalidTipsets
        /\ ~BelowEviction(bad))
       => /\ (pc'[t] = "ret" /\ res'[t].status = "INVALID")
             => /\ arg[t].kind = "np"
                /\ ParentHash[x] \in known
                /\ Time[x] <= Time[ParentHash[x]]
          /\ bad \notin DOMAIN invalidBlocksHits'
          /\ \A d \in DOMAIN invalidTipsets' : invalidTipsets'[d] # bad
          /\ \A d \in DOMAIN invalidTipsets :
               invalidTipsets[d] # bad
               => /\ d \in DOMAIN invalidTipsets'
                  /\ invalidTipsets'[d] = invalidTipsets[d]
    ]_vars

\* witness of C30: the lookup of a tip of bad block 4 removed both tips of
\* block 4 and its hit count, and left the entry of bad block 9
C30_Witness ==
  \E t \in Procs :
    /\ arg[t].kind = "np"
    /\ arg[t].p.blk \in DOMAIN pre[t].invalidTipsets
    /\ LET bad == pre[t].invalidTipsets[arg[t].p.blk] IN
       /\ Cardinality({d \in DOMAIN pre[t].invalidTipsets :
                         pre[t].invalidTipsets[d] = bad}) = 2
       /\ pre[t].invalidBlocksHits[bad] = invalidBlockHitEviction - 1
       /\ bad \notin DOMAIN invalidBlocksHits
       /\ \A d \in DOMAIN invalidTipsets : invalidTipsets[d] # bad
       /\ \E d \in DOMAIN invalidTipsets :
            /\ pre[t].invalidTipsets[d] # bad
            /\ invalidTipsets[d] = pre[t].invalidTipsets[d]
    /\ res[t].status # "INVALID"
    /\ pc[t] \in {"np_exec", "ret"}

\* C29: a fork-choice-update to a stored head that has non-zero difficulty,
\* is not the genesis block and whose parent has zero difficulty returns the
\* invalid-terminal-block status without a payload ID and without error,
\* makes no set-canonical call and leaves head, safe and finalized
\* unchanged.
C29_TerminalBlockRejected ==
  [][\A t \in Procs :
       LET hd == arg[t].head IN
       (/\ pc[t] = "fcu_head"
        /\ Steps(t)
        /\ hd \in known
        /\ Difficulty[hd] > 0
        /\ Number[hd] > 0
        /\ ParentHash[hd] \in known
        /\ Difficulty[ParentHash[hd]] = 0)
       => /\ pc'[t] = "ret"
          /\ res'[t].status = "INVALID_TERMINAL_BLOCK"
          /\ res'[t].id = NoId
          /\ res'[t].err = ""
          /\ UNCHANGED <<head, safe, finalized, setCanonicalCalls, localBlocks>>
    ]_vars

\* witness of C29: the update named a proof-of-work side block that is not
\* canonical
C29_Witness ==
  \E t \in Procs :
    /\ pc[t] = "ret" /\ arg[t].kind = "fcu"
    /\ arg[t].head \in known
    /\ Difficulty[arg[t].head] > 0
    /\ Difficulty[ParentHash[arg[t].head]] = 0
    /\ ReadCanonicalHash(Number[arg[t].head]) # arg[t].head
    /\ res[t].status = "INVALID_TERMINAL_BLOCK"
    /\ setCanonicalCalls = pre[t].setCanonicalCalls
    /\ <<head, safe, finalized>> = <<pre[t].head, pre[t].safe, pre[t].finalized>>
\* C23: a step of an execute-stateless-payload call leaves the chain, its
\* pointers, both caches, the invalid-block tracker, both locks, the
\* downloader and every counter as they were; of the engine state only the
\* new-payload liveness timestamp (with the clock it is read from) may
\* change, and the call needs neither lock to be free.
C23_StatelessTouchesOnlyLiveness ==
  [][\A t \in Procs :
       (pc[t] = "idle" /\ pc'[t] # "idle" /\ arg'[t].kind = "stateless")
       => /\ UNCHANGED <<nodeVars, orderVars, chainVars, cacheVars, trackerVars, lockVars,
                         countVars, collabVars, poolVars>>
          /\ lastForkchoiceUpdate' = lastForkchoiceUpdate
          /\ pc'[t] = "ret"
    ]_vars

\* witness of C23: a payload was executed statelessly and its liveness stamp
\* taken while the other goroutine was inside newPayload holding the
\* new-payload lock, after that goroutine's own stamp
C23_Witness ==
  /\ pc[2] = "ret" /\ arg[2].kind = "stateless"
  /\ res[2].via = "stateless"
  /\ pc[1] = "np_exec" /\ newPayloadLock = 1
  /\ pre[2].lastNewPayloadUpdate = 1
  /\ lastNewPayloadUpdate = 2
  /\ execCount = pre[2].execCount

\* the response r is the error e
IsQueryError(r, e) == r.status = "error" /\ r.err = e
\* the response r is the value v
IsQueryOk(r, v) == r.status = "ok" /\ r.err = "" /\ r.val = v

\* the payload ID versions a get-payload call of version ver takes, written
\* out per version
TakesIdVersion(ver, idver) ==
  \/ ver = 1 /\ idver = 1
  \/ ver = 2 /\ idver \in {1, 2}
  \/ ver = 3 /\ idver = 3
  \/ ver = 4 /\ idver = 3

\* C25: a get-payload call is a lookup in the local payload cache that
\* leaves both caches as they were.  GetPayloadV1 takes IDs of version 1,
\* GetPayloadV2 IDs of version 1 or 2, GetPayloadV3 and GetPayloadV4 IDs of
\* version 3; an ID of another version is refused as unsupported fork
\* before the cache is read, an ID of a version taken that is not cached is
\* answered unknown-payload, and a cached one is served.
C25_GetPayloadLookup ==
  \A t \in Procs :
    (pc[t] = "ret" /\ arg[t].kind = "getPayload")
    => LET id == arg[t].id
           taken == TakesIdVersion(arg[t].ver, id.ver)
           cached == QueueHas(pre[t].localBlocks, id)
       IN /\ ~taken => IsQueryError(res[t], "UnsupportedFork")
          /\ (taken /\ ~cached) => IsQueryError(res[t], "UnknownPayload")
          /\ (taken /\ cached) => IsQueryOk(res[t], id)
          /\ localBlocks = pre[t].localBlocks
          /\ remoteBlocks = pre[t].remoteBlocks

\* witness of C25: GetPayloadV2 served a cached payload built as version 1
C25_Witness ==
  \E t \in Procs :
    /\ pc[t] = "ret" /\ arg[t].kind = "getPayload"
    /\ arg[t].ver = 2 /\ arg[t].id.ver = 1
    /\ QueueHas(localBlocks, arg[t].id)
    /\ IsQueryOk(res[t], arg[t].id)

\* C25 as stated: GetPayloadVn serves only a payload whose build version is
\* n and refuses a cached payload of any other build version as unsupported
\* fork.
C25_OnlyOwnVersionServed ==
  \A t \in Procs :
    (pc[t] = "ret" /\ arg[t].kind = "getPayload")
    => LET id == arg[t].id
           cached == QueueHas(pre[t].localBlocks, id)
       IN /\ res[t].status = "ok" => id.ver = arg[t].ver
          /\ (cached /\ id.ver # arg[t].ver) => IsQueryError(res[t], "UnsupportedFork")

\* a finished get-payload-bodies-by-range call of goroutine t
BodiesReturned(t) == pc[t] = "ret" /\ arg[t].kind = "getBodies"

\* C26: a get-payload-bodies-by-range call with start=1 and count=2000 is
\* refused as too large, like every count above 1024, and a call with
\* count=0 is refused as invalid parameters; a call with start=1 and a
\* count of 1 to 1024 is answered with min(count, height) entries, the
\* height being the one read by the call; all of this also holds of two
\* calls that are in flight together.
C26_LargeCountRefused ==
  \A t \in Procs :
    BodiesReturned(t)
    => /\ arg[t].count = 0 => IsQueryError(res[t], "InvalidParams")
       /\ (arg[t].start = 1 /\ arg[t].count = 2000)
          => IsQueryError(res[t], "TooLargeRequest")
       /\ (arg[t].start = 1 /\ arg[t].count \in 1..bodiesCountLimit)
          => /\ res[t].status = "ok"
             /\ Len(res[t].val) <= bodiesCountLimit
             /\ Len(res[t].val) =
                  (IF arg[t].count < arg[t].current
                   THEN arg[t].count ELSE arg[t].current)

\* witness of C26: two calls with start=1 and count=2000 are in flight
\* together and both were refused as too large
C26_Witness ==
  \A t \in Procs :
    /\ BodiesReturned(t)
    /\ arg[t].start = 1 /\ arg[t].count = 2000
    /\ IsQueryError(res[t], "TooLargeRequest")

\* C26 as stated: a call with start=1 and count=2000 is not refused but
\* answered with at most 1024 entries and no more than the chain height.
C26_LargeCountClipped ==
  \A t \in Procs :
    (BodiesReturned(t) /\ arg[t].start = 1 /\ arg[t].count = 2000)
    => /\ res[t].status = "ok"
       /\ Len(res[t].val) <= bodiesCountLimit
       /\ Len(res[t].val) <= arg[t].current

\* the number of entries the range start..min(start+count-1, current) has,
\* in unbounded arithmetic
RangeSize(start, count, current) ==
  LET top == IF start + count - 1 < current THEN start + count - 1 ELSE current
  IN IF start > top THEN 0 ELSE top - start + 1

\* C27: get-payload-bodies-by-range refuses start=0 or count=0 as invalid
\* parameters and count>1024 as too large; otherwise it answers with one
\* entry per block number of start..min(start+count-1, height), in
\* ascending order, each the body of the canonical block of that number:
\* no entry when start is above the height, never more than count entries,
\* also when start+count-1 wraps around.
C27_RangeResult ==
  [][\A t \in Procs :
       (pc[t] # "ret" /\ pc'[t] = "ret" /\ arg'[t].kind = "getBodies")
       => LET start == arg'[t].start
              count == arg'[t].count
              n == RangeSize(start, count, arg'[t].current)
          IN IF start = 0 \/ count = 0
             THEN IsQueryError(res'[t], "InvalidParams")
             ELSE IF count > 1024
             THEN IsQueryError(res'[t], "TooLargeRequest")
             ELSE /\ res'[t].status = "ok"
                  /\ Len(res'[t].val) = n
                  /\ n <= count
                  /\ \A i \in 1..n :
                       res'[t].val[i] = getBody(GetBlockByNumber(start + i - 1))
    ]_vars

\* witness of C27: a range whose end wraps around was answered with an
\* empty list while another goroutine was answered with the two blocks of
\* a range inside the chain
C27_Witness ==
  /\ BodiesReturned(2)
  /\ arg[2].start = Uint64Mod - 1 /\ arg[2].count = 2
  /\ IsQueryOk(res[2], <<>>)
  /\ BodiesReturned(1)
  /\ arg[1].start = 1 /\ arg[1].count = 2
  /\ res[1].status = "ok" /\ Len(res[1].val) = 2
  /\ res[1].val[1] # res[1].val[2]

\* C28: a get-blobs call with more than 128 hashes is refused as too large
\* and the pool is not asked; a call with at most 128 hashes is answered,
\* without an error, with a list as long as the request whose entry i is
\* the blob and proof of hash i where the pool has them and nil where it
\* has not.
C28_BlobsByIndex ==
  \A t \in Procs :
    (pc[t] = "ret" /\ arg[t].kind = "getBlobs")
    => LET hashes == arg[t].hashes
       IN IF Len(hashes) > 128
          THEN /\ IsQueryError(res[t], "TooLargeRequest")
               /\ getBlobsCalls = pre[t].getBlobsCalls
          ELSE /\ res[t].status = "ok" /\ res[t].err = ""
               /\ Len(res[t].val) = Len(hashes)
               /\ \A i \in 1..Len(hashes) :
                    res[t].val[i] =
                      (IF hashes[i] \in PoolBlobs THEN hashes[i] ELSE Nil)
               /\ getBlobsCalls = pre[t].getBlobsCalls + 1

\* witness of C28: a request of 128 hashes was answered with 128 entries of
\* which the first is a blob and the second, unknown to the pool, is nil
C28_Witness ==
  \E t \in Procs :
    /\ pc[t] = "ret" /\ arg[t].kind = "getBlobs"
    /\ Len(arg[t].hashes) = blobsCountLimit
    /\ res[t].status = "ok"
    /\ Len(res[t].val) = blobsCountLimit
    /\ arg[t].hashes[1] \in PoolBlobs /\ res[t].val[1] = arg[t].hashes[1]
    /\ arg[t].hashes[2] \notin PoolBlobs /\ res[t].val[2] = Nil

(* ------------------------------------------------------------------ *)
(* The invalid-ancestor tracker: hit counts, capacity, consistency     *)
(* ------------------------------------------------------------------ *)
\* a step in which goroutine t looks up check in the tracker
IsReference(t) == pc[t] = "idle" /\ pc'[t] = "ret" /\ arg'[t].kind = "check"
\* a step in which the import of goroutine t's payload fails
IsImportFailure(t) ==
  pc[t] = "np_exec" /\ pc'[t] = "ret" /\ res'[t].via = "execfail"
\* the tips recorded for the bad ancestor bad
TipsOf(tips, bad) == {d \in DOMAIN tips : tips[d] = bad}

C32_TipsetsBounded == Cardinality(DOMAIN invalidTipsets) <= invalidTipsetsCap

\* the number of entries the capacity loop deletes from a map of n entries
Evicted(n) == IF n < invalidTipsetsCap THEN 0 ELSE n - invalidTipsetsCap + 1

\* C33: when checkInvalidAncestor rejects a tainted candidate below the
\* eviction threshold and head differs from the candidate, head is in the
\* tipset map afterwards, pointing at the same bad ancestor, no other
\* entry is added or changed, and of a map that held n entries before,
\* n - invalidTipsetsCap + 1 entries (one when the map was exactly at
\* capacity, none below it) were deleted before head was inserted, whichever
\* the map iteration yields first; when head equals the candidate the
\* tipset map is not modified.
C33_HeadInsertedAfterEviction ==
  [][\A t \in Procs :
       (/\ IsReference(t)
        /\ arg'[t].check \in DOMAIN invalidTipsets
        /\ BelowEviction(invalidTipsets[arg'[t].check]))
       => LET check == arg'[t].check
              hd == arg'[t].head
              bad == invalidTipsets[check]
              n == Cardinality(DOMAIN invalidTipsets)
              kept == (DOMAIN invalidTipsets') \ {hd}
          IN /\ IsTrackerRejection(res'[t], bad)
             /\ IF check = hd
                THEN invalidTipsets' = invalidTipsets
                ELSE /\ hd \in DOMAIN invalidTipsets'
                     /\ invalidTipsets'[hd] = bad
                     /\ \A d \in kept :
                          /\ d \in DOMAIN invalidTipsets
                          /\ invalidTipsets'[d] = invalidTipsets[d]
                     /\ Cardinality(DOMAIN invalidTipsets')
                          \in {n - Evicted(n), n - Evicted(n) + 1}
                     /\ Cardinality((DOMAIN invalidTipsets) \ (DOMAIN invalidTipsets'))
                          <= Evicted(n)
    ]_vars

\* witness of C33: block 4 was rejected as the parent of head 5 while the
\* map held exactly invalidTipsetsCap entries; head 5 now points at the bad
\* ancestor 4, and the one entry that was deleted is that of block 4
\* itself, the entry recorded last
C33_Witness ==
  /\ pc[1] = "ret" /\ arg[1].kind = "check"
  /\ arg[1].check = 4 /\ arg[1].head = 5
  /\ Cardinality(DOMAIN pre[1].invalidTipsets) = invalidTipsetsCap
  /\ res[1].status = "INVALID"
  /\ 5 \in DOMAIN invalidTipsets /\ invalidTipsets[5] = 4
  /\ (DOMAIN pre[1].invalidTipsets) \ (DOMAIN invalidTipsets) = {4}
  /\ Cardinality(DOMAIN invalidTipsets) = invalidTipsetsCap

\* C33 as stated: at capacity the oldest entry is the one evicted, so an
\* entry recorded after the entries of FailedElsewhere is not deleted
\* while one of those is left
C33_OldestEvicted ==
  [][\A t \in Procs :
       (/\ IsReference(t)
        /\ arg'[t].check \in DOMAIN invalidTipsets
        /\ BelowEviction(invalidTipsets[arg'[t].check])
        /\ arg'[t].check # arg'[t].head
        /\ Cardinality(DOMAIN invalidTipsets) = invalidTipsetsCap
        /\ (DOMAIN invalidTipsets) \cap FailedElsewhere # {})
       => (DOMAIN invalidTipsets) \ (DOMAIN invalidTipsets')
            \subseteq FailedElsewhere
    ]_vars

\* C34: every hash in the invalid-tipset map is the bad ancestor recorded
\* for it or descends from that ancestor through parent links, the
\* downloader reporting only origins that descend from the bad header it
\* reports (BadBlockInputs).
C34_TipsDescendFromBadAncestor ==
  \A d \in DOMAIN invalidTipsets :
    \/ invalidTipsets[d] = d
    \/ /\ d \in Blocks
       /\ invalidTipsets[d] \in Blocks
       /\ Descends(d, invalidTipsets[d])

\* witness of C34: with no report of the downloader, the payload of block 5
\* was rejected because its parent 4 is tainted, which recorded 5 under the
\* bad ancestor 4
C34_Witness ==
  /\ pc[1] = "ret" /\ arg[1].kind = "np" /\ arg[1].p.blk = 5
  /\ res[1].via = "tracker-parent"
  /\ 5 \notin DOMAIN pre[1].invalidTipsets
  /\ 4 \in DOMAIN invalidTipsets /\ invalidTipsets[4] = 4
  /\ 5 \in DOMAIN invalidTipsets /\ invalidTipsets[5] = 4
  /\ nbad = 0

\* the bad ancestors the entries of the tipset map point at
BadAncestors(tips) == {tips[d] : d \in DOMAIN tips}

\* C38: in every reachable state every bad ancestor an entry of the
\* invalid-tipset map points at has a hit count. (The converse does not
\* hold: the capacity loop deletes tipset entries and leaves the hit count
\* of their bad ancestor behind.)
C38_EveryBadAncestorCounted ==
  BadAncestors(invalidTipsets) \subseteq DOMAIN invalidBlocksHits

\* witness of C38: a reference to block 4 for head 5 on a full map deleted
\* the tipset entry of a block of FailedElsewhere, whose hit count is
\* still kept, while blocks 4 and 5 point at the counted bad ancestor 4
C38_Witness ==
  /\ 4 \in DOMAIN invalidTipsets /\ invalidTipsets[4] = 4
  /\ 5 \in DOMAIN invalidTipsets /\ invalidTipsets[5] = 4
  /\ 4 \in DOMAIN invalidBlocksHits
  /\ \E f \in FailedElsewhere :
       /\ f \in DOMAIN invalidBlocksHits
       /\ f \notin BadAncestors(invalidTipsets)
  /\ nbad = 0

\* C38 as stated: the keys of the hit-count map are exactly the bad
\* ancestors the tipset map points at
C38_TrackerMapsAgree ==
  DOMAIN invalidBlocksHits = BadAncestors(invalidTipsets)

(* ------------------------------------------------------------------ *)
(* Fork-choice-updates to a canonical ancestor of the tip              *)
(* ------------------------------------------------------------------ *)
\* goroutine t has finished a fork-choice-update that passed the version
\* checks and whose head was, when it was called, on the canonical chain
\* without being the tip
OldHeadCallDone(t) ==
  /\ pc[t] = "ret" /\ arg[t].kind = "fcu"
  /\ res[t].via # "gate"
  /\ arg[t].head \in pre[t].known
  /\ arg[t].head # pre[t].head
  /\ Descends(pre[t].head, arg[t].head)
  /\ arg[t].head \notin DOMAIN pre[t].invalidTipsets

\* h is zero, or a known block on the canonical chain of the tip tp
PointerAccepted(h, kn, tp) == h = ZeroHash \/ (h \in kn /\ Descends(tp, h))

\* C35: outside optimism a fork-choice-update whose head is on the
\* canonical chain without being the tip returns VALID with no payload ID
\* and no error and changes nothing: head, safe and finalized pointers,
\* the synced flag, the payload cache and the builder are as before, also
\* when attributes are supplied. On an optimism chain the same call marks
\* the node synced, keeps the tip, stores the finalized and the safe hash
\* it is given when they are canonical, and with valid attributes builds
\* the payload on the given head and returns its ID.
C35_StaleHeadShortCircuit ==
  \A t \in Procs :
    OldHeadCallDone(t)
    => LET u == arg[t]
           finOk == PointerAccepted(u.fin, pre[t].known, pre[t].head)
           safeOk == PointerAccepted(u.safe, pre[t].known, pre[t].head)
           id == PayloadId(u.head, u.attrs, u.ver)
       IN IF ~cfg.optimism
          THEN /\ res[t].status = "VALID" /\ res[t].lvh = u.head
               /\ res[t].id = NoId /\ res[t].err = ""
               /\ head = pre[t].head
               /\ safe = pre[t].safe
               /\ finalized = pre[t].finalized
               /\ synced = pre[t].synced
               /\ localBlocks = pre[t].localBlocks
               /\ buildCount = pre[t].buildCount
               /\ setCanonicalCalls = pre[t].setCanonicalCalls
          ELSE /\ synced
               /\ head = pre[t].head
               /\ setCanonicalCalls = pre[t].setCanonicalCalls
               /\ finalized = (IF u.fin # ZeroHash /\ finOk
                               THEN u.fin ELSE pre[t].finalized)
               /\ safe = (IF finOk /\ u.safe # ZeroHash /\ safeOk
                          THEN u.safe ELSE pre[t].safe)
               /\ (finOk /\ safeOk /\ u.attrs.present
                      /\ OpAttributesCheck(cfg, u.attrs) = "ok" /\ u.attrs.txOk)
                  => /\ res[t].status = "VALID" /\ res[t].lvh = u.head
                     /\ buildCount # pre[t].buildCount
                          \/ QueueHas(pre[t].localBlocks, id)
                     /\ \/ res[t].id = id /\ QueueHas(localBlocks, id)
                        \/ res[t].id = NoId /\ res[t].err # ""

\* witness of C35: outside optimism a call for the parent 2 of the tip 3
\* that carried payload attributes and safe and finalized hashes was
\* answered VALID without a payload ID, the pointers and the synced flag
\* being what they were
C35_Witness ==
  /\ ~cfg.optimism
  /\ OldHeadCallDone(1)
  /\ arg[1].head = 2 /\ pre[1].head = 3
  /\ arg[1].attrs.present /\ OpAttributesCheck(cfg, arg[1].attrs) = "ok"
  /\ arg[1].safe = 1 /\ arg[1].fin = 1
  /\ res[1].status = "VALID" /\ res[1].id = NoId
  /\ safe # 1 /\ finalized # 1 /\ ~synced
  /\ localBlocks = pre[1].localBlocks

\* goroutine t is in, or has finished, a fork-choice-update whose head was
\* on the canonical chain without being the tip when it was called
OldHeadCall(t) ==
  /\ pc[t] # "idle" /\ arg[t].kind = "fcu"
  /\ arg[t].head \in pre[t].known
  /\ arg[t].head # pre[t].head
  /\ Descends(pre[t].head, arg[t].head)

\* C36: on an optimism chain no step of a fork-choice-update whose head is
\* a canonical ancestor of the tip calls SetCanonical or moves the tip, and
\* a payload the call returns is cached under an ID whose parent is the
\* given head, which is not the tip.
C36_BuildOnOldHeadKeepsTip ==
  \A t \in Procs :
    (cfg.optimism /\ OldHeadCall(t))
    => /\ setCanonicalCalls = pre[t].setCanonicalCalls
       /\ head = pre[t].head
       /\ (pc[t] = "ret" /\ res[t].id # NoId)
          => /\ res[t].id = PayloadId(arg[t].head, arg[t].attrs, arg[t].ver)
             /\ res[t].id.parent = arg[t].head
             /\ res[t].id.parent # head
             /\ QueueHas(localBlocks, res[t].id)

\* witness of C36: on an optimism chain with tip 3 a payload was built and
\* cached whose parent is block 2
C36_Witness ==
  /\ cfg.optimism
  /\ OldHeadCall(1) /\ pc[1] = "ret"
  /\ res[1].via = "built"
  /\ res[1].id.parent = 2 /\ head = 3
  /\ ~QueueHas(pre[1].localBlocks, res[1].id)
  /\ QueueHas(localBlocks, res[1].id)
  /\ buildCount # pre[1].buildCount

\* h is the zero hash or a block of the canonical chain
OnCanonicalChain(h) == h = ZeroHash \/ (h \in known /\ Descends(head, h))

\* C37: a step of fork-choice-update that stores a new finalized or safe
\* pointer stores a block that is on the canonical chain at that moment,
\* after the reorganisation the same call may have made; a step that
\* moves the canonical tip leaves the stored pointers as they are.
C37_PointersStoredFromCanonicalChain ==
  [][/\ finalized' # finalized
        => /\ head' = head
           /\ finalized' \in known /\ Descends(head, finalized')
     /\ safe' # safe
        => /\ head' = head
           /\ safe' \in known /\ Descends(head, safe')
     /\ head' # head
        => /\ safe' = safe /\ finalized' = finalized
           /\ \E t \in Procs : pc[t] = "fcu_canon"
    ]_vars

\* witness of C37: safe and finalized were stored as block 2 while the tip
\* was 3, and a later fork-choice-update reorganised to the side block 8,
\* which does not descend from block 2
C37_Witness ==
  /\ safe = 2 /\ finalized = 2
  /\ head = 8
  /\ ~Descends(head, safe)
  /\ pc[1] = "ret" /\ arg[1].kind = "fcu" /\ arg[1].head = 8
  /\ res[1].status = "VALID"
  /\ pre[1].head = 3 /\ pre[1].safe = 2 /\ pre[1].finalized = 2

\* C37 as stated: in every reachable state the stored safe and finalized
\* pointers reference blocks of the current canonical chain
C37_PointersStayCanonical ==
  OnCanonicalChain(safe) /\ OnCanonicalChain(finalized)

(* ------------------------------------------------------------------ *)
(* Lock order and progress                                             *)
(* ------------------------------------------------------------------ *)
\* the tracker lock and the three liveness locks
InnerLocks == {"invalidLock", "lastTransitionLock", "lastForkchoiceLock",
               "lastNewPayloadLock"}
Holds(t) == {l \in Locks : holder[l] = t}
Requests(t) == todo[t] # <<>> /\ Head(todo[t]).op = "Lock"

\* C39: a goroutine that asks for a mutex holds neither the tracker lock
\* nor one of the three liveness locks, a goroutine that has returned
\* holds no mutex, and under the fairness of the scheduler and of the
\* mutexes every operation that was entered returns, whatever the other
\* goroutines and the heartbeat loop do.
C39_NoDeadlock ==
  /\ [](\A t \in Threads :
         /\ Requests(t) => Holds(t) \cap InnerLocks = {}
         /\ todo[t] = <<>> => Holds(t) = {})
  /\ \A t \in Threads : (todo[t] # <<>>) ~> (todo[t] = <<>>)

\* witness of C39: goroutine 1, in fork-choice-update, holds forkchoiceLock
\* and waits for the tracker lock, which goroutine 2 holds inside
\* new-payload, while the heartbeat loop holds lastForkchoiceLock
C39_Witness ==
  /\ holder["forkchoiceLock"] = 1
  /\ Requests(1) /\ Head(todo[1]).lock = "invalidLock"
  /\ holder["invalidLock"] = 2
  /\ holder["newPayloadLock"] = 2
  /\ holder["lastForkchoiceLock"] = HeartbeatProc

(* ------------------------------------------------------------------ *)
(* The version checks of the three new-payload entry points             *)
(* ------------------------------------------------------------------ *)
\* C40: for each version the checks NewPayloadVn, NewPayloadWithWitnessVn
\* and ExecuteStatelessPayloadVn make before they call newPayload or
\* executeStatelessPayload reject the same inputs: a payload handed to one
\* of the first two is rejected by its checks exactly when the checks of
\* the other and those of the stateless entry point would reject it.
C40_SameVersionChecks ==
  \A t \in Procs :
    (pc[t] = "ret" /\ arg[t].kind = "np")
    => LET rejected == res[t].via = "gate"
       IN /\ rejected = (NpGate(cfg, arg[t].ver, ~arg[t].wit, arg[t].p) # "ok")
          /\ rejected = (StatelessGate(cfg, arg[t].ver, arg[t].p) # "ok")

====
